---- MODULE Spec2Model ----
(***************************************************************************)
(* pg-tui: the SQL text-intelligence core (lexer, formatter, statement     *)
(* extractor, autocomplete engine) as state machines.                      *)
(*                                                                         *)
(* A Rust String is modelled as the sequence of its chars; a char is a     *)
(* one-character TLA+ string.  Byte offsets (String::len, slicing,         *)
(* char_indices) are computed from the UTF-8 width of each char, so the    *)
(* places where the code mixes byte offsets and char indices stay visible. *)
(***************************************************************************)
EXTENDS Integers, Sequences, FiniteSets, TLC

VARIABLES
    pc,            \* which operation has been applied to the inputs
    sql,           \* the &str handed to tokenize / format
    tokens,        \* Vec<Token> returned by tokenize
    formatted,     \* String returned by format(sql)
    reformatted,   \* String returned by format(format(sql))
    query_input,   \* App::query_input
    query_cursor,  \* App::query_cursor
    extracted,     \* result of App::extract_current_query
    engine,        \* AutocompleteEngine: [keywords, tables, columns]
    hash_order,    \* iteration order of engine.columns (a HashMap) for this call
    context,       \* Context computed by analyze_context in the last call
    suggestions,   \* result of AutocompleteEngine::get_suggestions; App::suggestions
    mode,          \* App::mode
    client,        \* DbConnection::client is Some
    suggestion_selected,         \* App::suggestion_selected
    show_autocomplete,           \* App::show_autocomplete
    autocomplete_schema_loaded,  \* App::autocomplete_schema_loaded
    last_schema,   \* the argument of the latest update_schema call, << >> before any
    schema_loads,  \* the number of update_schema calls so far
    browser_items,     \* App::browser_items
    browser_selected,  \* App::browser_selected
    expanded_items,    \* App::expanded_items
    filter_input,      \* App::filter_input
    filter_active      \* App::filter_active

vars == << pc, sql, tokens, formatted, reformatted, query_input, query_cursor,
           extracted, engine, hash_order, context, suggestions, mode, client,
           suggestion_selected, show_autocomplete, autocomplete_schema_loaded,
           last_schema, schema_loads, browser_items, browser_selected,
           expanded_items, filter_input, filter_active >>

lexVars == << sql, tokens, formatted, reformatted >>
appVars == << query_input, query_cursor, extracted >>
acVars  == << engine, hash_order, context, suggestions >>
uiVars  == << mode, client, suggestion_selected, show_autocomplete,
              autocomplete_schema_loaded >>
histVars == << last_schema, schema_loads >>
browserVars == << browser_items, browser_selected, expanded_items,
                  filter_input, filter_active >>

-----------------------------------------------------------------------------
(* Characters                                                              *)

LowerAZ ==
    << "a","b","c","d","e","f","g","h","i","j","k","l","m",
       "n","o","p","q","r","s","t","u","v","w","x","y","z" >>

UpperAZ ==
    << "A","B","C","D","E","F","G","H","I","J","K","L","M",
       "N","O","P","Q","R","S","T","U","V","W","X","Y","Z" >>

AsciiDigits == {"0","1","2","3","4","5","6","7","8","9"}

\* The non-ASCII letters of the model: two-byte chars in UTF-8.
WideLower == "é"
WideUpper == "É"

LowerSet == {LowerAZ[i] : i \in 1..26} \cup {WideLower}
UpperSet == {UpperAZ[i] : i \in 1..26} \cup {WideUpper}

\* char::is_alphabetic
IsAlphabetic(c) == c \in LowerSet \/ c \in UpperSet

\* char::is_ascii_digit
IsAsciiDigit(c) == c \in AsciiDigits

\* char::is_alphanumeric
IsAlphanumeric(c) == IsAlphabetic(c) \/ c \in AsciiDigits

\* char::is_whitespace (White_Space): wider than the four chars that open a
\* Whitespace token; form feed stands for the rest of the class.
IsWhitespace(c) == c \in {" ", "\t", "\n", "\r", "\f"}

\* The word characters of the autocomplete scanner.
IsWordChar(c) == IsAlphanumeric(c) \/ c = "_"

\* char::len_utf8
LenUtf8(c) == IF c \in {WideLower, WideUpper} THEN 2 ELSE 1

\* The upper-case form of each lower-case letter, and the reverse.
UpperOf ==
    [c \in LowerSet |-> IF c = WideLower THEN WideUpper
                        ELSE UpperAZ[CHOOSE i \in 1..26 : c = LowerAZ[i]]]
LowerOf ==
    [c \in UpperSet |-> IF c = WideUpper THEN WideLower
                        ELSE LowerAZ[CHOOSE i \in 1..26 : c = UpperAZ[i]]]

\* char::to_uppercase, char::to_lowercase
ToUpperChar(c) == IF c \in LowerSet THEN UpperOf[c] ELSE c
ToLowerChar(c) == IF c \in UpperSet THEN LowerOf[c] ELSE c

-----------------------------------------------------------------------------
(* Strings                                                                 *)

Min(a, b) == IF a < b THEN a ELSE b

\* str::to_uppercase, str::to_lowercase
ToUppercase(s) == [i \in 1..Len(s) |-> ToUpperChar(s[i])]
ToLowercase(s) == [i \in 1..Len(s) |-> ToLowerChar(s[i])]

RECURSIVE ByteLenTo(_, _)
\* The length in bytes of the first k chars of s.
ByteLenTo(s, k) == IF k = 0 THEN 0 ELSE ByteLenTo(s, k - 1) + LenUtf8(s[k])

\* str::len: the length in bytes
ByteLen(s) == ByteLenTo(s, Len(s))

\* The byte offset at which the i-th char (1-based) starts: char_indices.
ByteOffset(s, i) == ByteLenTo(s, i - 1)

\* str::is_char_boundary
IsCharBoundary(s, b) == \E k \in 0..Len(s) : ByteLenTo(s, k) = b

\* The number of chars that lie before byte offset b (b a char boundary).
CharsBefore(s, b) == CHOOSE k \in 0..Len(s) : ByteLenTo(s, k) = b

\* &s[from..to] with byte offsets: the chars between two char boundaries.
ByteSlice(s, from, to) == SubSeq(s, CharsBefore(s, from) + 1, CharsBefore(s, to))

\* str::starts_with, str::ends_with, str::contains, str::find
StartsWith(s, p) == Len(p) <= Len(s) /\ SubSeq(s, 1, Len(p)) = p
EndsWith(s, p) == Len(p) <= Len(s) /\ SubSeq(s, Len(s) - Len(p) + 1, Len(s)) = p
OccursAt(s, p, i) == i + Len(p) - 1 <= Len(s) /\ SubSeq(s, i, i + Len(p) - 1) = p
Contains(s, p) == \E i \in 1..(Len(s) + 1) : OccursAt(s, p, i)

\* A trim that strips the leading White_Space only.
TrimStartOnly(s) ==
    LET keep == {i \in 1..Len(s) : ~IsWhitespace(s[i])}
    IN  IF keep = {} THEN << >>
        ELSE SubSeq(s, CHOOSE i \in keep : \A j \in keep : i <= j, Len(s))

\* str::trim: strips leading and trailing White_Space
Trim(s) ==
    LET keep == {i \in 1..Len(s) : ~IsWhitespace(s[i])}
    IN  IF keep = {} THEN << >>
        ELSE SubSeq(s, CHOOSE i \in keep : \A j \in keep : i <= j,
                       CHOOSE i \in keep : \A j \in keep : i >= j)

\* The first index k >= j of s whose char is outside the class, Len(s)+1 if none:
\* where a `while let Some(c) = chars.peek()` loop over the class stops.
ScanWhile(s, j, InClass(_)) ==
    LET stops == {k \in j..Len(s) : ~InClass(s[k])}
    IN  IF stops = {} THEN Len(s) + 1 ELSE CHOOSE k \in stops : \A m \in stops : k <= m

RECURSIVE Concat(_)
\* The concatenation of a sequence of strings.
Concat(ss) == IF ss = << >> THEN << >> ELSE Head(ss) \o Concat(Tail(ss))

\* All strings of at most n chars over an alphabet.
StringsUpTo(alphabet, n) == UNION {[1..k -> alphabet] : k \in 0..n}

-----------------------------------------------------------------------------
(* Lexer: src/syntax.rs                                                    *)

HighlighterKeywords ==
    << <<"S","E","L","E","C","T">>, <<"F","R","O","M">>, <<"W","H","E","R","E">>,
       <<"I","N","S","E","R","T">>, <<"I","N","T","O">>, <<"V","A","L","U","E","S">>,
       <<"U","P","D","A","T","E">>, <<"S","E","T">>, <<"D","E","L","E","T","E">>,
       <<"J","O","I","N">>, <<"I","N","N","E","R">>, <<"L","E","F","T">>,
       <<"R","I","G","H","T">>, <<"F","U","L","L">>, <<"C","R","O","S","S">>, <<"O","N">>,
       <<"A","N","D">>, <<"O","R">>, <<"N","O","T">>, <<"I","N">>,
       <<"B","E","T","W","E","E","N">>, <<"L","I","K","E">>, <<"I","S">>, <<"N","U","L","L">>,
       <<"A","S">>, <<"O","R","D","E","R">>, <<"B","Y">>, <<"G","R","O","U","P">>,
       <<"H","A","V","I","N","G">>, <<"L","I","M","I","T">>, <<"O","F","F","S","E","T">>,
       <<"D","I","S","T","I","N","C","T">>, <<"A","S","C">>, <<"D","E","S","C">>,
       <<"U","N","I","O","N">>, <<"I","N","T","E","R","S","E","C","T">>,
       <<"E","X","C","E","P","T">>, <<"A","L","L">>, <<"A","N","Y">>,
       <<"C","R","E","A","T","E">>, <<"A","L","T","E","R">>, <<"D","R","O","P">>,
       <<"T","A","B","L","E">>, <<"D","A","T","A","B","A","S","E">>, <<"I","N","D","E","X">>,
       <<"V","I","E","W">>, <<"S","C","H","E","M","A">>, <<"P","R","I","M","A","R","Y">>,
       <<"K","E","Y">>, <<"F","O","R","E","I","G","N">>,
       <<"R","E","F","E","R","E","N","C","E","S">>, <<"C","O","N","S","T","R","A","I","N","T">>,
       <<"U","N","I","Q","U","E">>, <<"C","H","E","C","K">>, <<"D","E","F","A","U","L","T">>,
       <<"C","A","S","C","A","D","E">>, <<"I","N","T","E","G","E","R">>, <<"I","N","T">>,
       <<"S","M","A","L","L","I","N","T">>, <<"B","I","G","I","N","T">>,
       <<"S","E","R","I","A","L">>, <<"B","I","G","S","E","R","I","A","L">>,
       <<"N","U","M","E","R","I","C">>, <<"D","E","C","I","M","A","L">>, <<"R","E","A","L">>,
       <<"D","O","U","B","L","E">>, <<"P","R","E","C","I","S","I","O","N">>,
       <<"F","L","O","A","T">>, <<"V","A","R","C","H","A","R">>, <<"C","H","A","R">>,
       <<"T","E","X","T">>, <<"B","O","O","L","E","A","N">>, <<"B","O","O","L">>,
       <<"D","A","T","E">>, <<"T","I","M","E">>, <<"T","I","M","E","S","T","A","M","P">>,
       <<"T","I","M","E","S","T","A","M","P","T","Z">>, <<"I","N","T","E","R","V","A","L">>,
       <<"J","S","O","N">>, <<"J","S","O","N","B">>, <<"U","U","I","D">>,
       <<"B","Y","T","E","A">>, <<"A","R","R","A","Y">>, <<"C","O","U","N","T">>,
       <<"S","U","M">>, <<"A","V","G">>, <<"M","I","N">>, <<"M","A","X">>,
       <<"C","O","A","L","E","S","C","E">>, <<"N","U","L","L","I","F">>,
       <<"C","O","N","C","A","T">>, <<"S","U","B","S","T","R","I","N","G">>,
       <<"L","E","N","G","T","H">>, <<"U","P","P","E","R">>, <<"L","O","W","E","R">>,
       <<"T","R","I","M">>, <<"N","O","W">>,
       <<"C","U","R","R","E","N","T","_","D","A","T","E">>,
       <<"C","U","R","R","E","N","T","_","T","I","M","E">>,
       <<"C","U","R","R","E","N","T","_","T","I","M","E","S","T","A","M","P">>,
       <<"C","A","S","E">>, <<"W","H","E","N">>, <<"T","H","E","N">>, <<"E","L","S","E">>,
       <<"E","N","D">>, <<"E","X","I","S","T","S">>, <<"B","E","G","I","N">>,
       <<"C","O","M","M","I","T">>, <<"R","O","L","L","B","A","C","K">>,
       <<"T","R","A","N","S","A","C","T","I","O","N">> >>

HighlighterKeywordSet == {HighlighterKeywords[i] : i \in 1..Len(HighlighterKeywords)}

\* self.keywords.contains(&text.to_uppercase())
IsKeyword(text) == ToUppercase(text) \in HighlighterKeywordSet

Token(type, text) == [token_type |-> type, text |-> text]

\* One match arm's outcome: the token and the index of the next unread char.
Lexed(type, text, next) == [token_type |-> type, text |-> text, next |-> next]

\* ' ' | '\t' | '\n' | '\r': the run continues over char::is_whitespace.
LexWhitespace(s, i) ==
    LET e == ScanWhile(s, i + 1, IsWhitespace)
    IN  Lexed("Whitespace", << s[i] >> \o SubSeq(s, i + 1, e - 1), e)

RECURSIVE StringEndNoEscape(_, _, _)
\* A string loop that closes at the first quote, escaped or not.
StringEndNoEscape(s, j, escaped) ==
    IF j > Len(s) THEN j
    ELSE IF s[j] = "'" THEN j + 1
    ELSE StringEndNoEscape(s, j + 1, FALSE)

RECURSIVE StringEnd(_, _, _)
\* The string loop: every char read is pushed; an escaped char never closes.
StringEnd(s, j, escaped) ==
    IF j > Len(s) THEN j
    ELSE IF escaped THEN StringEnd(s, j + 1, FALSE)
    ELSE IF s[j] = "\\" THEN StringEnd(s, j + 1, TRUE)
    ELSE IF s[j] = "'" THEN j + 1
    ELSE StringEnd(s, j + 1, FALSE)

LexString(s, i) ==
    LET e == StringEnd(s, i + 1, FALSE)
    IN  Lexed("String", << s[i] >> \o SubSeq(s, i + 1, e - 1), e)

NotLineFeed(c) == c # "\n"

\* LexComment with the second dash consumed but not pushed.
LexCommentOneDash(s, i) ==
    LET e == ScanWhile(s, i + 2, NotLineFeed)
    IN  Lexed("Comment", << s[i] >> \o SubSeq(s, i + 2, e - 1), e)

\* LexComment that takes the line feed with the comment.
LexCommentWithFeed(s, i) ==
    LET e == Min(ScanWhile(s, i + 2, NotLineFeed) + 1, Len(s) + 1)
    IN  Lexed("Comment", SubSeq(s, i, e - 1), e)

\* '-' followed by '-': both dashes are pushed, then everything up to '\n'.
LexComment(s, i) ==
    LET e == ScanWhile(s, i + 2, NotLineFeed)
    IN  Lexed("Comment", << s[i] >> \o << s[i + 1] >> \o SubSeq(s, i + 2, e - 1), e)

RECURSIVE NumberEnd(_, _, _)
\* The number loop: digits, and one '.' while has_dot is false.
NumberEnd(s, j, has_dot) ==
    IF j > Len(s) THEN j
    ELSE IF IsAsciiDigit(s[j]) THEN NumberEnd(s, j + 1, has_dot)
    ELSE IF s[j] = "." /\ ~has_dot THEN NumberEnd(s, j + 1, TRUE)
    ELSE j

LexNumber(s, i) ==
    LET e == NumberEnd(s, i + 1, FALSE)
    IN  Lexed("Number", << s[i] >> \o SubSeq(s, i + 1, e - 1), e)

OperatorChars == {"=", ">", "<", "!", "+", "-", "*", "/", "%", "|", "&"}

\* An operator arm that takes any operator char as the second char.
LexOperatorAnyPair(s, i) ==
    IF i + 1 <= Len(s) /\ s[i + 1] \in {"=", ">", "<", "!", "+", "-", "*", "/", "%", "|", "&"}
    THEN Lexed("Operator", << s[i] >> \o << s[i + 1] >>, i + 2)
    ELSE Lexed("Operator", << s[i] >>, i + 1)

\* >=, <=, !=, <> (and >>, <>, !>): a second char is taken only after > < !
LexOperator(s, i) ==
    IF /\ i + 1 <= Len(s)
       /\ s[i] \in {">", "<", "!"}
       /\ s[i + 1] \in {"=", ">"}
    THEN Lexed("Operator", << s[i] >> \o << s[i + 1] >>, i + 2)
    ELSE Lexed("Operator", << s[i] >>, i + 1)

\* A Punctuation arm that takes the rest of the input with the char.
LexPunctuationRest(s, i) == Lexed("Punctuation", SubSeq(s, i, Len(s)), Len(s) + 1)

LexPunctuation(s, i) == Lexed("Punctuation", << s[i] >>, i + 1)

LexWord(s, i) ==
    LET e    == ScanWhile(s, i + 1, IsWordChar)
        text == << s[i] >> \o SubSeq(s, i + 1, e - 1)
    IN  Lexed(IF IsKeyword(text) THEN "Keyword" ELSE "Identifier", text, e)

\* The match on ch of one iteration of `while let Some((i, ch)) = chars.next()`.
LexOne(s, i) ==
    LET ch == s[i]
    IN  IF ch \in {" ", "\t", "\n", "\r"} THEN LexWhitespace(s, i)
        ELSE IF ch = "'" THEN LexString(s, i)
        ELSE IF ch = "-" /\ i + 1 <= Len(s) /\ s[i + 1] = "-" THEN LexComment(s, i)
        ELSE IF IsAsciiDigit(ch) THEN LexNumber(s, i)
        ELSE IF ch \in OperatorChars THEN LexOperator(s, i)
        ELSE IF ch \in {"(", ")", ",", ";", "."} THEN LexPunctuation(s, i)
        ELSE IF IsAlphabetic(ch) \/ ch = "_" THEN LexWord(s, i)
        ELSE LexPunctuation(s, i)

RECURSIVE TokenizeFrom(_, _, _)
TokenizeFrom(s, i, acc) ==
    IF i > Len(s) THEN acc
    ELSE LET t == LexOne(s, i)
         IN  TokenizeFrom(s, t.next, Append(acc, Token(t.token_type, t.text)))

\* SqlHighlighter::tokenize
Tokenize(s) == TokenizeFrom(s, 1, << >>)

\* The concatenation of the tokens' text, in order.
TokenText(toks) == Concat([i \in 1..Len(toks) |-> toks[i].text])

-----------------------------------------------------------------------------
(* Formatter: src/formatter.rs                                             *)

\* SqlFormatter::new: indent_size
indent_size == 4

\* SqlFormatter::new: keyword_case
keyword_case == "Upper"

\* Indent with an indent size of 2.
IndentByTwo(level) == [i \in 1..(2 * level) |-> " "]

\* SqlFormatter::indent
Indent(level) == [k \in 1..(indent_size * level) |-> " "]

\* SqlFormatter::apply_keyword_case
ApplyKeywordCase(keyword) ==
    IF keyword_case = "Upper" THEN ToUppercase(keyword) ELSE ToLowercase(keyword)

MajorClauses ==
    { <<"S","E","L","E","C","T">>, <<"F","R","O","M">>, <<"W","H","E","R","E">>,
      <<"G","R","O","U","P">>, <<"H","A","V","I","N","G">>, <<"O","R","D","E","R">>,
      <<"L","I","M","I","T">>, <<"O","F","F","S","E","T">>, <<"U","N","I","O","N">>,
      <<"I","N","T","E","R","S","E","C","T">>, <<"E","X","C","E","P","T">> }

JoinKeywords ==
    { <<"J","O","I","N">>, <<"I","N","N","E","R">>, <<"L","E","F","T">>,
      <<"R","I","G","H","T">>, <<"F","U","L","L">>, <<"C","R","O","S","S">> }

\* String::ends_with(char)
EndsWithChar(s, c) == s # << >> /\ s[Len(s)] = c

\* The locals of format before the loop.
FormatInit ==
    [ result |-> << >>, indent_level |-> 0, after_select |-> FALSE,
      after_major_clause |-> FALSE, first_column |-> TRUE ]

\* A major clause that is appended without a line break.
FormatMajorClauseInline(st, keyword_upper) ==
    [ st EXCEPT !.result = @ \o Indent(st.indent_level) \o ApplyKeywordCase(keyword_upper),
                !.after_major_clause = TRUE ]

\* TokenType::Keyword: major clauses
FormatMajorClause(st, keyword_upper) ==
    LET r == IF st.result # << >> /\ ~EndsWithChar(st.result, "\n")
             THEN st.result \o << "\n" >> ELSE st.result
        isSelect == keyword_upper = <<"S","E","L","E","C","T">>
    IN  [ st EXCEPT !.result = r \o Indent(st.indent_level) \o ApplyKeywordCase(keyword_upper),
                    !.after_select = IF isSelect THEN TRUE ELSE @,
                    !.first_column = IF isSelect THEN TRUE ELSE @,
                    !.after_major_clause = TRUE ]

\* TokenType::Keyword: JOIN | INNER | LEFT | RIGHT | FULL | CROSS.  next is the
\* raw next token (Whitespace included), or << >> at the last token.
FormatJoin(st, keyword_upper, next) ==
    LET joins == \/ Contains(keyword_upper, <<"J","O","I","N">>)
                 \/ next # << >> /\ Contains(ToUppercase(next[1].text), <<"J","O","I","N">>)
        r == IF joins
             THEN (IF ~EndsWithChar(st.result, "\n") THEN st.result \o << "\n" >> ELSE st.result)
                  \o Indent(st.indent_level)
             ELSE st.result \o << " " >>
    IN  [ st EXCEPT !.result = r \o ApplyKeywordCase(keyword_upper) ]

\* TokenType::Keyword: ON, AND, OR
FormatOnAndOr(st, keyword_upper) ==
    [ st EXCEPT !.result = @ \o << "\n" >> \o Indent(st.indent_level + 1)
                             \o ApplyKeywordCase(keyword_upper) ]

\* TokenType::Keyword: BY
FormatBy(st, keyword_upper) ==
    [ st EXCEPT !.result = @ \o << " " >> \o ApplyKeywordCase(keyword_upper) ]

\* TokenType::Keyword: every other keyword
FormatOtherKeyword(st, keyword_upper) ==
    LET r == IF /\ st.after_major_clause
                /\ ~EndsWithChar(st.result, " ")
                /\ ~EndsWithChar(st.result, "\n")
             THEN st.result \o << " " >> ELSE st.result
    IN  [ st EXCEPT !.result = r \o ApplyKeywordCase(keyword_upper) ]

FormatKeyword(st, token, next) ==
    LET keyword_upper == ToUppercase(token.text)
    IN  IF keyword_upper \in MajorClauses THEN FormatMajorClause(st, keyword_upper)
        ELSE IF keyword_upper \in JoinKeywords THEN FormatJoin(st, keyword_upper, next)
        ELSE IF keyword_upper = <<"O","N">> THEN FormatOnAndOr(st, keyword_upper)
        ELSE IF keyword_upper \in {<<"A","N","D">>, <<"O","R">>} THEN FormatOnAndOr(st, keyword_upper)
        ELSE IF keyword_upper = <<"B","Y">> THEN FormatBy(st, keyword_upper)
        ELSE FormatOtherKeyword(st, keyword_upper)

\* TokenType::Punctuation if token.text == ","
FormatComma(st) ==
    IF st.after_select
    THEN [ st EXCEPT !.result = @ \o << ",", "\n" >> \o Indent(st.indent_level + 1),
                     !.first_column = FALSE ]
    ELSE [ st EXCEPT !.result = @ \o << "," >> ]

\* TokenType::Punctuation if token.text == "("
FormatOpenParen(st) ==
    [ st EXCEPT !.result = @ \o << "(" >>, !.indent_level = @ + 1 ]

\* A ')' that decrements without the test for 0.
FormatCloseParenUnchecked(st) ==
    [ st EXCEPT !.result = @ \o << ")" >>, !.indent_level = @ - 1 ]

\* TokenType::Punctuation if token.text == ")"
FormatCloseParen(st) ==
    [ st EXCEPT !.result = @ \o << ")" >>,
                !.indent_level = IF @ > 0 THEN @ - 1 ELSE @ ]

\* TokenType::Identifier | TokenType::String | TokenType::Number
FormatValue(st, token, next) ==
    LET amc == IF /\ st.after_major_clause
                  /\ ~EndsWithChar(st.result, " ")
                  /\ ~EndsWithChar(st.result, "\n")
               THEN FALSE ELSE st.after_major_clause
        newline == st.after_select /\ st.first_column
        r == IF newline
             THEN st.result \o << "\n" >> \o Indent(st.indent_level + 1)
             ELSE IF /\ st.result # << >>
                     /\ ~EndsWithChar(st.result, "\n")
                     /\ ~EndsWithChar(st.result, " ")
                     /\ ~EndsWithChar(st.result, "(")
                  THEN st.result \o << " " >>
                  ELSE st.result
        nextIsKeyword == next # << >> /\ next[1].token_type = "Keyword"
    IN  [ st EXCEPT !.result = r \o token.text,
                    !.after_major_clause = amc,
                    !.first_column = IF newline THEN FALSE ELSE @,
                    !.after_select = IF @ /\ nextIsKeyword THEN FALSE ELSE @ ]

\* TokenType::Operator
FormatOperator(st, token) ==
    LET r == IF ~EndsWithChar(st.result, " ") /\ st.result # << >>
             THEN st.result \o << " " >> ELSE st.result
    IN  [ st EXCEPT !.result = r \o token.text ]

\* TokenType::Punctuation ";", TokenType::Comment and the `_` arm push the text.
FormatVerbatim(st, token) == [ st EXCEPT !.result = @ \o token.text ]

\* TokenType::Whitespace: `continue`
FormatWhitespace(st) == st

\* One iteration of `for (i, token) in tokens.iter().enumerate()`.
FormatToken(st, token, next) ==
    IF token.token_type = "Keyword" THEN FormatKeyword(st, token, next)
    ELSE IF token.token_type = "Punctuation" /\ token.text = << "," >> THEN FormatComma(st)
    ELSE IF token.token_type = "Punctuation" /\ token.text = << "(" >> THEN FormatOpenParen(st)
    ELSE IF token.token_type = "Punctuation" /\ token.text = << ")" >> THEN FormatCloseParen(st)
    ELSE IF token.token_type = "Punctuation" /\ token.text = << ";" >> THEN FormatVerbatim(st, token)
    ELSE IF token.token_type = "Whitespace" THEN FormatWhitespace(st)
    ELSE IF token.token_type \in {"Identifier", "String", "Number"} THEN FormatValue(st, token, next)
    ELSE IF token.token_type = "Operator" THEN FormatOperator(st, token)
    ELSE FormatVerbatim(st, token)

RECURSIVE FormatFrom(_, _, _)
\* The loop over the tokens from index i on; tokens.get(i + 1) is << >> for None.
FormatFrom(toks, i, st) ==
    IF i > Len(toks) THEN st
    ELSE FormatFrom(toks, i + 1,
                    FormatToken(st, toks[i],
                                IF i + 1 <= Len(toks) THEN << toks[i + 1] >> ELSE << >>))

RECURSIVE FormatPrefix(_, _)
\* The locals of format after the first k iterations of the loop.
FormatPrefix(toks, k) ==
    IF k = 0 THEN FormatInit
    ELSE FormatToken(FormatPrefix(toks, k - 1), toks[k],
                     IF k + 1 <= Len(toks) THEN << toks[k + 1] >> ELSE << >>)

\* SqlFormatter::format
Format(s) == Trim(FormatFrom(Tokenize(s), 1, FormatInit).result)

-----------------------------------------------------------------------------
(* Statement extractor: src/app.rs                                         *)

\* What a call produced: a value, or a panic (slice or index out of range).
Ok(v) == [ok |-> TRUE, val |-> v]
Panic == [ok |-> FALSE, val |-> << >>]

RECURSIVE SemicolonsFrom(_, _)
\* char_indices().filter_map(..): the byte offsets of the ';' from char i on.
SemicolonsFrom(s, i) ==
    IF i > Len(s) THEN << >>
    ELSE IF s[i] = ";" THEN << ByteOffset(s, i) >> \o SemicolonsFrom(s, i + 1)
    ELSE SemicolonsFrom(s, i + 1)

Semicolons(s) == SemicolonsFrom(s, 1)

\* QueryStart with `pos <= cursor_pos`.
QueryStartInclusive(semicolons, cursor_pos) ==
    LET before == {k \in 1..Len(semicolons) : semicolons[k] <= cursor_pos}
    IN  IF before = {} THEN 0
        ELSE semicolons[CHOOSE k \in before : \A m \in before : m <= k] + 1

\* semicolons.iter().rev().find(|&&pos| pos < cursor_pos).map(|&pos| pos + 1).unwrap_or(0)
QueryStart(semicolons, cursor_pos) ==
    LET before == {k \in 1..Len(semicolons) : semicolons[k] < cursor_pos}
    IN  IF before = {} THEN 0
        ELSE semicolons[CHOOSE k \in before : \A m \in before : m <= k] + 1

\* semicolons.iter().find(|&&pos| pos >= cursor_pos).copied().unwrap_or(len)
QueryEnd(semicolons, cursor_pos, len) ==
    LET after == {k \in 1..Len(semicolons) : semicolons[k] >= cursor_pos}
    IN  IF after = {} THEN len
        ELSE semicolons[CHOOSE k \in after : \A m \in after : k <= m]

\* &s[from..to]: panics unless from <= to <= len and both are char boundaries.
SliceOrPanic(s, from, to) ==
    IF from <= to /\ to <= ByteLen(s) /\ IsCharBoundary(s, from) /\ IsCharBoundary(s, to)
    THEN Ok(ByteSlice(s, from, to))
    ELSE Panic

\* App::extract_current_query
ExtractCurrentQuery(input, cursor) ==
    IF input = << >> THEN Ok(<< >>)
    ELSE IF Semicolons(input) = << >> THEN Ok(Trim(input))
    ELSE LET query == SliceOrPanic(input,
                                   QueryStart(Semicolons(input), cursor),
                                   QueryEnd(Semicolons(input), cursor, ByteLen(input)))
         IN  IF query.ok THEN Ok(Trim(query.val)) ELSE Panic

-----------------------------------------------------------------------------
(* Autocomplete engine: src/autocomplete.rs                                *)

EngineKeywords ==
    << <<"S","E","L","E","C","T">>, <<"F","R","O","M">>, <<"W","H","E","R","E">>,
       <<"I","N","S","E","R","T">>, <<"I","N","T","O">>, <<"V","A","L","U","E","S">>,
       <<"U","P","D","A","T","E">>, <<"S","E","T">>, <<"D","E","L","E","T","E">>,
       <<"J","O","I","N">>, <<"I","N","N","E","R"," ","J","O","I","N">>,
       <<"L","E","F","T"," ","J","O","I","N">>, <<"R","I","G","H","T"," ","J","O","I","N">>,
       <<"F","U","L","L"," ","J","O","I","N">>, <<"C","R","O","S","S"," ","J","O","I","N">>,
       <<"O","N">>, <<"A","N","D">>, <<"O","R">>, <<"N","O","T">>, <<"I","N">>,
       <<"B","E","T","W","E","E","N">>, <<"L","I","K","E">>, <<"I","S">>, <<"N","U","L","L">>,
       <<"O","R","D","E","R"," ","B","Y">>, <<"G","R","O","U","P"," ","B","Y">>,
       <<"H","A","V","I","N","G">>, <<"L","I","M","I","T">>, <<"O","F","F","S","E","T">>,
       <<"D","I","S","T","I","N","C","T">>, <<"A","S">>, <<"A","S","C">>, <<"D","E","S","C">>,
       <<"C","R","E","A","T","E">>, <<"A","L","T","E","R">>, <<"D","R","O","P">>,
       <<"T","A","B","L","E">>, <<"D","A","T","A","B","A","S","E">>, <<"I","N","D","E","X">>,
       <<"V","I","E","W">>, <<"P","R","I","M","A","R","Y"," ","K","E","Y">>,
       <<"F","O","R","E","I","G","N"," ","K","E","Y">>,
       <<"R","E","F","E","R","E","N","C","E","S">>, <<"C","O","N","S","T","R","A","I","N","T">>,
       <<"U","N","I","Q","U","E">>, <<"C","H","E","C","K">>, <<"D","E","F","A","U","L","T">>,
       <<"A","U","T","O","_","I","N","C","R","E","M","E","N","T">>,
       <<"I","N","T","E","G","E","R">>, <<"I","N","T">>, <<"S","M","A","L","L","I","N","T">>,
       <<"B","I","G","I","N","T">>, <<"S","E","R","I","A","L">>,
       <<"B","I","G","S","E","R","I","A","L">>, <<"N","U","M","E","R","I","C">>,
       <<"D","E","C","I","M","A","L">>, <<"R","E","A","L">>,
       <<"D","O","U","B","L","E"," ","P","R","E","C","I","S","I","O","N">>,
       <<"F","L","O","A","T">>, <<"V","A","R","C","H","A","R">>, <<"C","H","A","R">>,
       <<"T","E","X","T">>, <<"B","O","O","L","E","A","N">>, <<"B","O","O","L">>,
       <<"D","A","T","E">>, <<"T","I","M","E">>, <<"T","I","M","E","S","T","A","M","P">>,
       <<"T","I","M","E","S","T","A","M","P","T","Z">>, <<"I","N","T","E","R","V","A","L">>,
       <<"J","S","O","N">>, <<"J","S","O","N","B">>, <<"U","U","I","D">>,
       <<"B","Y","T","E","A">>, <<"C","O","U","N","T">>, <<"S","U","M">>, <<"A","V","G">>,
       <<"M","I","N">>, <<"M","A","X">>, <<"C","O","N","C","A","T">>,
       <<"S","U","B","S","T","R","I","N","G">>, <<"L","E","N","G","T","H">>,
       <<"U","P","P","E","R">>, <<"L","O","W","E","R">>, <<"T","R","I","M">>, <<"N","O","W">>,
       <<"C","U","R","R","E","N","T","_","D","A","T","E">>,
       <<"C","U","R","R","E","N","T","_","T","I","M","E">>,
       <<"C","U","R","R","E","N","T","_","T","I","M","E","S","T","A","M","P">>,
       <<"C","A","S","E">>, <<"W","H","E","N">>, <<"T","H","E","N">>, <<"E","L","S","E">>,
       <<"E","N","D">>, <<"E","X","I","S","T","S">>, <<"A","N","Y">>, <<"A","L","L">>,
       <<"U","N","I","O","N">>, <<"I","N","T","E","R","S","E","C","T">>,
       <<"E","X","C","E","P","T">>, <<"B","E","G","I","N">>, <<"C","O","M","M","I","T">>,
       <<"R","O","L","L","B","A","C","K">>, <<"T","R","A","N","S","A","C","T","I","O","N">> >>

\* suggestions.truncate(10)
MaxSuggestions == 10

Take(s, n) == SubSeq(s, 1, Min(Len(s), n))

Suggestion(type, text, description) ==
    [suggestion_type |-> type, text |-> text, description |-> description]

\* AutocompleteEngine::new: no tables, an empty column map.
NewEngine == [keywords |-> EngineKeywords, tables |-> << >>, columns |-> << >>]

\* The tables of the column map (the keys of the HashMap).
Keys(columns) == DOMAIN columns

\* update_schema without the two clear() calls: the pairs are added to what the
\* engine already holds.
UpdateSchemaEngineNoClear(eng, snapshot) ==
    LET names == {snapshot[i][1] : i \in 1..Len(snapshot)}
        last(n) == CHOOSE i \in 1..Len(snapshot) :
                       /\ snapshot[i][1] = n
                       /\ \A j \in 1..Len(snapshot) : snapshot[j][1] = n => j <= i
    IN  [eng EXCEPT !.tables = eng.tables \o [i \in 1..Len(snapshot) |-> snapshot[i][1]],
                    !.columns = [n \in names \cup DOMAIN eng.columns |->
                                    IF n \in names THEN snapshot[last(n)][2]
                                    ELSE eng.columns[n]] ]

\* AutocompleteEngine::update_schema: both collections are cleared, every pair of
\* the snapshot is pushed to tables and inserted in the map (a later pair with
\* the same name replaces the earlier one).
UpdateSchemaEngine(eng, snapshot) ==
    LET names == {snapshot[i][1] : i \in 1..Len(snapshot)}
        last(n) == CHOOSE i \in 1..Len(snapshot) :
                       /\ snapshot[i][1] = n
                       /\ \A j \in 1..Len(snapshot) : snapshot[j][1] = n => j <= i
    IN  [eng EXCEPT !.tables = [i \in 1..Len(snapshot) |-> snapshot[i][1]],
                    !.columns = [n \in names |-> snapshot[last(n)][2]] ]

RECURSIVE WordStartFrom(_, _)
\* `while word_start > 0 { prev_char = chars[word_start - 1]; ... }`: the number
\* of chars before the maximal run of word chars that ends after char number p.
WordStartFrom(chars, p) ==
    IF p > 0 /\ IsWordChar(chars[p]) THEN WordStartFrom(chars, p - 1) ELSE p

\* AutocompleteEngine::extract_current_word.  safe_pos is clamped to the length
\* in bytes and then indexes the Vec<char>: chars[safe_pos - 1] panics when
\* safe_pos exceeds the number of chars.
ExtractCurrentWord(text, cursor_pos) ==
    IF text = << >> \/ cursor_pos = 0 THEN [ok |-> TRUE, word |-> << >>, word_start |-> 0]
    ELSE LET safe_pos == Min(cursor_pos, ByteLen(text))
         IN  IF safe_pos > Len(text) THEN [ok |-> FALSE, word |-> << >>, word_start |-> 0]
             ELSE LET word_start == WordStartFrom(text, safe_pos)
                  IN  [ok |-> TRUE, word |-> SubSeq(text, word_start + 1, safe_pos),
                       word_start |-> word_start]

\* ExtractTableBeforeDot looking for the dot one char too far left.
ExtractTableBeforeDotOffByOne(text, word_start) ==
    IF word_start <= 1 THEN << >>
    ELSE IF text[word_start - 1] = "."
    THEN LET table_end   == word_start - 2
             table_start == WordStartFrom(text, table_end)
             table_name  == SubSeq(text, table_start + 1, table_end)
         IN  IF table_name # << >> THEN << table_name >> ELSE << >>
    ELSE << >>

\* AutocompleteEngine::extract_table_before_dot: << name >> for Some(name),
\* << >> for None.
ExtractTableBeforeDot(text, word_start) ==
    IF word_start = 0 THEN << >>
    ELSE IF word_start <= Len(text) /\ text[word_start] = "."
    THEN LET table_end   == word_start - 1
             table_start == WordStartFrom(text, table_end)
             table_name  == SubSeq(text, table_start + 1, table_end)
         IN  IF table_name # << >> THEN << table_name >> ELSE << >>
    ELSE << >>

FROM_ == <<"F","R","O","M"," ">>
WHERE == <<"W","H","E","R","E">>
WHERE_ == <<"W","H","E","R","E"," ">>
SELECT_ == <<"S","E","L","E","C","T"," ">>
FROM == <<"F","R","O","M">>
ON_ == <<"O","N"," ">>

\* ClassifyContext without the ends_with("FROM ") test.
ClassifyContextNoEndsWith(upper) ==
    IF Contains(upper, FROM_) /\ ~Contains(upper, WHERE)
    THEN "TableName"
    ELSE IF StartsWith(upper, SELECT_) /\ ~Contains(upper, FROM) THEN "ColumnName"
    ELSE IF Contains(upper, WHERE_) \/ Contains(upper, ON_) THEN "ColumnName"
    ELSE "General"

\* The heuristics of analyze_context on the upper-cased text before the cursor.
ClassifyContext(upper) ==
    IF EndsWith(upper, FROM_) \/ (Contains(upper, FROM_) /\ ~Contains(upper, WHERE))
    THEN "TableName"
    ELSE IF StartsWith(upper, SELECT_) /\ ~Contains(upper, FROM) THEN "ColumnName"
    ELSE IF Contains(upper, WHERE_) \/ Contains(upper, ON_) THEN "ColumnName"
    ELSE "General"

\* AutocompleteEngine::analyze_context: &query[..cursor_pos.min(query.len())] is a
\* byte slice and panics off a char boundary.
AnalyzeContext(query, cursor_pos) ==
    LET before_cursor == SliceOrPanic(query, 0, Min(cursor_pos, ByteLen(query)))
    IN  IF before_cursor.ok THEN Ok(ClassifyContext(ToUppercase(before_cursor.val)))
        ELSE Panic

\* AutocompleteEngine::match_keywords
MatchKeywords(eng, prefix) ==
    LET hit(kw) == StartsWith(kw, prefix)
        sug(kw) == Suggestion("Keyword", kw, "SQL Keyword")
        kept == SelectSeq(eng.keywords, hit)
    IN  [i \in 1..Len(kept) |-> sug(kept[i])]

\* AutocompleteEngine::match_tables
MatchTables(eng, prefix) ==
    LET hit(t) == StartsWith(ToUppercase(t), prefix)
        kept == SelectSeq(eng.tables, hit)
    IN  [i \in 1..Len(kept) |-> Suggestion("Table", kept[i], "Table")]

\* TableColumns without col.to_uppercase(): a case-sensitive match.
TableColumnsCaseSensitive(eng, table, prefix) ==
    LET hit(c) == StartsWith(c, prefix)
        kept == SelectSeq(eng.columns[table], hit)
    IN  [i \in 1..Len(kept) |-> Suggestion("Column", kept[i], << "Column in", table >>)]

\* The columns of one table that match, as Column suggestions.
TableColumns(eng, table, prefix) ==
    LET hit(c) == StartsWith(ToUppercase(c), prefix)
        kept == SelectSeq(eng.columns[table], hit)
    IN  [i \in 1..Len(kept) |-> Suggestion("Column", kept[i], << "Column in", table >>)]

\* AutocompleteEngine::match_all_columns: `for (table, columns) in &self.columns`
\* visits the HashMap in its iteration order.
MatchAllColumns(eng, order, prefix) ==
    Concat([i \in 1..Len(order) |-> TableColumns(eng, order[i], prefix)])

\* The first index at which p occurs in s (str::find), 0 for None.
Find(s, p) ==
    LET at == {i \in 1..(Len(s) + 1) : OccursAt(s, p, i)}
    IN  IF at = {} THEN 0 ELSE CHOOSE i \in at : \A j \in at : i <= j

NotWhitespace(c) == ~IsWhitespace(c)

\* AutocompleteEngine::extract_table_from_query: the first whitespace-separated
\* word after the first "FROM ", its trailing non-word chars trimmed.
\* << name >> for Some(name), << >> for None.
ExtractTableFromQuery(query) ==
    LET from_pos == Find(ToUppercase(query), FROM_)
    IN  IF from_pos = 0 THEN << >>
        ELSE LET after_from == SubSeq(query, from_pos + 5, Len(query))
                 b == ScanWhile(after_from, 1, IsWhitespace)
                 e == ScanWhile(after_from, b, NotWhitespace)
                 first_word == SubSeq(after_from, b, e - 1)
                 wordChars == {k \in 1..Len(first_word) : IsWordChar(first_word[k])}
                 keep == IF wordChars = {} THEN 0
                         ELSE CHOOSE k \in wordChars : \A m \in wordChars : m <= k
             IN  IF first_word = << >> THEN << >> ELSE << SubSeq(first_word, 1, keep) >>

\* AutocompleteEngine::match_columns
MatchColumns(eng, order, prefix, query) ==
    LET table_name == ExtractTableFromQuery(query)
    IN  IF table_name # << >> /\ table_name[1] \in Keys(eng.columns)
        THEN TableColumns(eng, table_name[1], prefix)
        ELSE MatchAllColumns(eng, order, prefix)

\* ContextSuggestions with the General sources extended tables first.
ContextSuggestionsTablesFirst(eng, order, ctx, current_word_upper, query) ==
    IF ctx = "TableName"
    THEN MatchTables(eng, current_word_upper) \o MatchKeywords(eng, current_word_upper)
    ELSE IF ctx = "ColumnName"
    THEN MatchColumns(eng, order, current_word_upper, query) \o MatchKeywords(eng, current_word_upper)
    ELSE MatchTables(eng, current_word_upper) \o MatchKeywords(eng, current_word_upper)
         \o MatchAllColumns(eng, order, current_word_upper)

\* The sources of each context, in the order they are extended.
ContextSuggestions(eng, order, ctx, current_word_upper, query) ==
    IF ctx = "TableName"
    THEN MatchTables(eng, current_word_upper) \o MatchKeywords(eng, current_word_upper)
    ELSE IF ctx = "ColumnName"
    THEN MatchColumns(eng, order, current_word_upper, query) \o MatchKeywords(eng, current_word_upper)
    ELSE MatchKeywords(eng, current_word_upper) \o MatchTables(eng, current_word_upper)
         \o MatchAllColumns(eng, order, current_word_upper)

\* DotSuggestions falling back to the columns of every table for an unknown name.
DotSuggestionsAnyTable(eng, table_name, current_word_upper) ==
    IF table_name \in Keys(eng.columns)
    THEN Take(TableColumns(eng, table_name, current_word_upper), MaxSuggestions)
    ELSE Take(Concat([i \in 1..Len(eng.tables) |->
                        IF eng.tables[i] \in Keys(eng.columns)
                        THEN TableColumns(eng, eng.tables[i], current_word_upper)
                        ELSE << >>]),
              MaxSuggestions)

\* DotSuggestions without suggestions.truncate(10).
DotSuggestionsUntruncated(eng, table_name, current_word_upper) ==
    IF table_name \in Keys(eng.columns)
    THEN TableColumns(eng, table_name, current_word_upper)
    ELSE << >>

\* The table.column path: only the columns of the table before the dot; a name
\* that is no key of the map leaves the list empty.
DotSuggestions(eng, table_name, current_word_upper) ==
    IF table_name \in Keys(eng.columns)
    THEN Take(TableColumns(eng, table_name, current_word_upper), MaxSuggestions)
    ELSE << >>

\* get_suggestions without its early return.
ReturnsEarlyNever(current_word) == FALSE

\* `if current_word.is_empty() { return Vec::new(); }`
ReturnsEarly(current_word) == current_word = << >>

\* AutocompleteEngine::get_suggestions, with the context it computed ("None"
\* when it returned before analyze_context).
GetSuggestionsRun(eng, order, query, cursor_pos) ==
    LET w == ExtractCurrentWord(query, cursor_pos)
        current_word_upper == ToUppercase(w.word)
        dot == ExtractTableBeforeDot(query, w.word_start)
        ctx == AnalyzeContext(query, w.word_start)
    IN  IF ~w.ok THEN [ok |-> FALSE, val |-> << >>, context |-> "None"]
        ELSE IF ReturnsEarly(w.word) THEN [ok |-> TRUE, val |-> << >>, context |-> "None"]
        ELSE IF dot # << >>
        THEN [ok |-> TRUE, val |-> DotSuggestions(eng, dot[1], current_word_upper),
              context |-> "None"]
        ELSE IF ~ctx.ok THEN [ok |-> FALSE, val |-> << >>, context |-> "None"]
        ELSE [ok |-> TRUE,
              val |-> Take(ContextSuggestions(eng, order, ctx.val, current_word_upper, query),
                           MaxSuggestions),
              context |-> ctx.val]

GetSuggestions(eng, order, query, cursor_pos) ==
    LET r == GetSuggestionsRun(eng, order, query, cursor_pos)
    IN  [ok |-> r.ok, val |-> r.val]

-----------------------------------------------------------------------------
(* Inputs and bounds                                                       *)

\* The longest input of the lexer, in chars.
MaxLexLen == 4

\* The longest input of the lexer made of operator chars only.
MaxOperatorLen == 2

\* One char of every class the lexer tells apart.
LexAlphabet == {" ", "\n", "'", "\\", "-", "1", ".", ">", "=", "o", "n", "#", ";"}

\* "select id,name from users where id=1"
ClauseExample ==
    <<"s","e","l","e","c","t"," ","i","d",",","n","a","m","e"," ","f","r","o","m"," ",
      "u","s","e","r","s"," ","w","h","e","r","e"," ","i","d","=","1">>

\* The largest number of pieces in an input of the formatter.
MaxFmtPieces == 4

FmtPieces ==
    { <<"s","e","l","e","c","t"," ">>, <<"1">>, <<" ">>, <<"i","s">>, <<",">>, <<"b">>,
      <<"(">>, <<"F","r","o","m">> }

\* The longest generated editor text of the extractor, in chars.
MaxExtLen == 4

ExtAlphabet == {";", " ", "a", WideLower}

\* "SELECT 1; SELECT 2"
TwoStatements ==
    <<"S","E","L","E","C","T"," ","1",";"," ","S","E","L","E","C","T"," ","2">>

\* The largest number of pieces in an editor text handed to the engine.
MaxAcPieces == 3

AcPieces ==
    { <<"S","E","L","E","C","T"," ">>, <<"F","R","O","M"," ">>,
      <<"u","s","e","r","s",".">>, <<"u",".">>, <<"n">>, <<WideLower>> }

\* The largest number of pieces in a text handed to analyze_context.
MaxCtxPieces == 3

CtxPieces ==
    { <<"S","E","L","E","C","T"," ">>, <<"F","R","O","M"," ">>, <<"W","H","E","R","E">>,
      <<"O","N"," ">>, <<" ">>, <<WideLower>> }

users == <<"u","s","e","r","s">>
notes == <<"n","o","t","e","s">>
name == <<"n","a","m","e">>

\* Schema snapshots as update_schema receives them: (table, columns) pairs.
\* {users: [id, name]}
SchemaUsers == << << users, << <<"i","d">>, name >> >> >>

\* users with eleven columns in n, and a second table.
SchemaWide ==
    << << users, << <<"n","0">>, <<"n","1">>, <<"n","2">>, <<"n","3">>, <<"n","4">>,
                    <<"n","5">>, <<"n","6">>, <<"n","7">>, <<"n","8">>, <<"n","9">>,
                    name, <<"i","d">> >> >>,
       << notes, << <<"i","d">>, <<"n","o","t","e">> >> >> >>

Snapshots == {SchemaUsers, SchemaWide}

\* The tables of the connected database: {users: [id, name], notes: [note]}
SchemaTwo ==
    << << users, << <<"i","d">>, name >> >>, << notes, << <<"n","o","t","e">> >> >> >>

\* The orders in which a HashMap with the given keys can be iterated.
IterationOrders(keys) ==
    {f \in [1..Cardinality(keys) -> keys] : \A i, j \in DOMAIN f : i # j => f[i] # f[j]}

\* All concatenations of at most n pieces.
PieceStrings(pieces, n) ==
    {Concat(ps) : ps \in UNION {[1..k -> pieces] : k \in 0..n}}

\* The idle values of the variables an operation does not use.
IdleLex == sql = << >> /\ tokens = << >> /\ formatted = << >> /\ reformatted = << >>
IdleApp == query_input = << >> /\ query_cursor = 0 /\ extracted = Ok(<< >>)
IdleAc  == /\ engine = NewEngine /\ hash_order = << >>
           /\ context = "None" /\ suggestions = Ok(<< >>)
IdleUi  == /\ mode = "Query" /\ client = FALSE
           /\ suggestion_selected = 0 /\ show_autocomplete = FALSE
           /\ autocomplete_schema_loaded = FALSE
IdleHist == last_schema = << >> /\ schema_loads = 0
IdleBrowser == /\ browser_items = << >> /\ browser_selected = 0
               /\ expanded_items = {}
               /\ filter_input = << >> /\ filter_active = FALSE

-----------------------------------------------------------------------------
(* The lexer applied to an input                                           *)

InitLexer ==
    /\ pc = "ready"
    /\ IdleUi /\ IdleHist /\ IdleBrowser
    /\ sql \in StringsUpTo(LexAlphabet, MaxLexLen) \cup StringsUpTo(OperatorChars, MaxOperatorLen)
    /\ tokens = << >> /\ formatted = << >> /\ reformatted = << >>
    /\ IdleApp /\ IdleAc

DoTokenize ==
    /\ pc = "ready"
    /\ tokens' = Tokenize(sql)
    /\ pc' = "tokenized"
    /\ UNCHANGED << sql, formatted, reformatted, appVars, acVars, uiVars, histVars, browserVars >>

SpecLexer == InitLexer /\ [][DoTokenize]_vars

-----------------------------------------------------------------------------
(* The formatter applied to an input, and again to its own output          *)

InitFormatter ==
    /\ pc = "ready"
    /\ IdleUi /\ IdleHist /\ IdleBrowser
    /\ sql \in PieceStrings(FmtPieces, MaxFmtPieces) \cup {ClauseExample}
    /\ tokens = << >> /\ formatted = << >> /\ reformatted = << >>
    /\ IdleApp /\ IdleAc

DoFormat ==
    /\ pc = "ready"
    /\ formatted' = Format(sql)
    /\ pc' = "formatted"
    /\ UNCHANGED << sql, tokens, reformatted, appVars, acVars, uiVars, histVars, browserVars >>

DoReformat ==
    /\ pc = "formatted"
    /\ reformatted' = Format(formatted)
    /\ pc' = "reformatted"
    /\ UNCHANGED << sql, tokens, formatted, appVars, acVars, uiVars, histVars, browserVars >>

NextFormatter == DoFormat \/ DoReformat

SpecFormatter == InitFormatter /\ [][NextFormatter]_vars

-----------------------------------------------------------------------------
(* The statement extractor applied to an editor state                      *)

InitExtractor ==
    /\ pc = "ready"
    /\ IdleUi /\ IdleHist /\ IdleBrowser
    /\ query_input \in StringsUpTo(ExtAlphabet, MaxExtLen) \cup {TwoStatements}
    /\ query_cursor \in 0..(ByteLen(query_input) + 1)
    /\ extracted = Ok(<< >>)
    /\ IdleLex /\ IdleAc

DoExtract ==
    /\ pc = "ready"
    /\ extracted' = ExtractCurrentQuery(query_input, query_cursor)
    /\ pc' = "extracted"
    /\ UNCHANGED << query_input, query_cursor, lexVars, acVars, uiVars, histVars, browserVars >>

SpecExtractor == InitExtractor /\ [][DoExtract]_vars

-----------------------------------------------------------------------------
(* The autocomplete engine: schema updates, then one call of get_suggestions *)

InitAutocomplete ==
    /\ pc = "ready"
    /\ IdleUi /\ IdleHist /\ IdleBrowser
    /\ query_input \in PieceStrings(AcPieces, MaxAcPieces)
    /\ query_cursor \in 0..(ByteLen(query_input) + 1)
    /\ extracted = Ok(<< >>)
    /\ engine = NewEngine
    /\ hash_order = << >>
    /\ context = "None"
    /\ suggestions = Ok(<< >>)
    /\ IdleLex

\* update_schema(snapshot); the new map's iteration order is fixed when it is filled.
UpdateSchema(snapshot) ==
    /\ pc = "ready"
    /\ engine' = UpdateSchemaEngine(engine, snapshot)
    /\ hash_order' \in IterationOrders(Keys(engine'.columns))
    /\ last_schema' = snapshot
    /\ UNCHANGED << pc, context, suggestions, lexVars, appVars, uiVars, browserVars >>

DoGetSuggestions ==
    /\ pc = "ready"
    /\ LET r == GetSuggestionsRun(engine, hash_order, query_input, query_cursor)
       IN  /\ suggestions' = [ok |-> r.ok, val |-> r.val]
           /\ context' = r.context
    /\ pc' = "suggested"
    /\ UNCHANGED << engine, hash_order, lexVars, appVars, uiVars, histVars, browserVars >>

NextAutocomplete ==
    \/ \E snapshot \in Snapshots : UpdateSchema(snapshot) /\ UNCHANGED schema_loads
    \/ DoGetSuggestions

SpecAutocomplete == InitAutocomplete /\ [][NextAutocomplete]_vars

-----------------------------------------------------------------------------
(* analyze_context applied to a text and a position                        *)

InitContext ==
    /\ pc = "ready"
    /\ IdleUi /\ IdleHist /\ IdleBrowser
    /\ query_input \in PieceStrings(CtxPieces, MaxCtxPieces)
    /\ query_cursor \in 0..(ByteLen(query_input) + 1)
    /\ extracted = Ok(<< >>)
    /\ IdleAc /\ IdleLex

DoAnalyzeContext ==
    /\ pc = "ready"
    /\ LET r == AnalyzeContext(query_input, query_cursor)
       IN  context' = IF r.ok THEN r.val ELSE "Panic"
    /\ pc' = "classified"
    /\ UNCHANGED << engine, hash_order, suggestions, lexVars, appVars, uiVars, histVars, browserVars >>

SpecContext == InitContext /\ [][DoAnalyzeContext]_vars

-----------------------------------------------------------------------------
(* get_suggestions on texts with several FROM clauses                      *)

\* The largest number of pieces in a text with FROM clauses.
MaxColPieces == 3

\* "FROM users WHERE ", "FROM notes WHERE ", "n", ";"
ColPieces ==
    { <<"F","R","O","M"," ">> \o users \o <<" ","W","H","E","R","E"," ">>,
      <<"F","R","O","M"," ">> \o notes \o <<" ","W","H","E","R","E"," ">>,
      <<"n">>, <<";">> }

InitColumns ==
    /\ pc = "ready"
    /\ IdleUi /\ IdleHist /\ IdleBrowser
    /\ query_input \in PieceStrings(ColPieces, MaxColPieces)
    /\ query_cursor \in 0..Len(query_input)
    /\ extracted = Ok(<< >>)
    /\ IdleAc /\ IdleLex

SpecColumns == InitColumns /\ [][NextAutocomplete]_vars

-----------------------------------------------------------------------------
(* The query editor: src/app.rs                                            *)

\* The editor after a handler: ok is FALSE when the handler panicked.
Edited(input, cursor) == [ok |-> TRUE, input |-> input, cursor |-> cursor]
EditPanic(input, cursor) == [ok |-> FALSE, input |-> input, cursor |-> cursor]

\* String::insert(idx, c): idx is a byte offset, which must lie on a char
\* boundary of the string (its end included).
StringInsert(s, idx, c) ==
    IF idx <= ByteLen(s) /\ IsCharBoundary(s, idx)
    THEN Ok(SubSeq(s, 1, CharsBefore(s, idx)) \o << c >>
            \o SubSeq(s, CharsBefore(s, idx) + 1, Len(s)))
    ELSE Panic

\* String::remove(idx): removes the char that starts at byte offset idx.
StringRemove(s, idx) ==
    IF idx < ByteLen(s) /\ IsCharBoundary(s, idx)
    THEN Ok(SubSeq(s, 1, CharsBefore(s, idx)) \o SubSeq(s, CharsBefore(s, idx) + 2, Len(s)))
    ELSE Panic

\* String::drain(from..to) with byte offsets.
StringDrain(s, from, to) ==
    IF from <= to /\ to <= ByteLen(s) /\ IsCharBoundary(s, from) /\ IsCharBoundary(s, to)
    THEN Ok(SubSeq(s, 1, CharsBefore(s, from)) \o SubSeq(s, CharsBefore(s, to) + 1, Len(s)))
    ELSE Panic

\* The keys of the query editor.
KeyChar(c) == [code |-> "Char", ch |-> c]
KeyCode(code) == [code |-> code, ch |-> ""]

\* handle_query_input with a Right key that does not look at the length.
HandleQueryInputRightUnchecked(input, cursor, key) ==
    IF key.code = "Char"
    THEN LET r == StringInsert(input, cursor, key.ch)
         IN  IF r.ok THEN Edited(r.val, cursor + 1) ELSE EditPanic(input, cursor)
    ELSE IF key.code = "Backspace"
    THEN IF cursor > 0
         THEN LET r == StringRemove(input, cursor - 1)
              IN  IF r.ok THEN Edited(r.val, cursor - 1) ELSE EditPanic(input, cursor)
         ELSE Edited(input, cursor)
    ELSE IF key.code = "Left"
    THEN Edited(input, IF cursor > 0 THEN cursor - 1 ELSE cursor)
    ELSE IF key.code = "Right"
    THEN Edited(input, cursor + 1)
    ELSE IF key.code = "Enter"
    THEN Edited(input \o << "\n" >>, cursor + 1)
    ELSE Edited(input, cursor)

\* App::handle_query_input
HandleQueryInput(input, cursor, key) ==
    IF key.code = "Char"
    THEN LET r == StringInsert(input, cursor, key.ch)
         IN  IF r.ok THEN Edited(r.val, cursor + 1) ELSE EditPanic(input, cursor)
    ELSE IF key.code = "Backspace"
    THEN IF cursor > 0
         THEN LET r == StringRemove(input, cursor - 1)
              IN  IF r.ok THEN Edited(r.val, cursor - 1) ELSE EditPanic(input, cursor)
         ELSE Edited(input, cursor)
    ELSE IF key.code = "Left"
    THEN Edited(input, IF cursor > 0 THEN cursor - 1 ELSE cursor)
    ELSE IF key.code = "Right"
    THEN Edited(input, IF cursor < ByteLen(input) THEN cursor + 1 ELSE cursor)
    ELSE IF key.code = "Enter"
    THEN Edited(input \o << "\n" >>, cursor + 1)
    ELSE Edited(input, cursor)

\* App::adjust_query_scroll slices &query_input[..query_cursor.min(len)]: it
\* panics when that byte offset is inside a char.  (The scroll offset it
\* computes belongs to the rendering and is not kept here.)
AdjustQueryScroll(input, cursor) == SliceOrPanic(input, 0, Min(cursor, ByteLen(input))).ok

RECURSIVE InsertChars(_, _, _, _)
\* `for (i, c) in insert_text.chars().enumerate() { query_input.insert(word_start + i, c) }`
InsertChars(s, word_start, text, i) ==
    IF i >= Len(text) THEN Ok(s)
    ELSE LET r == StringInsert(s, word_start + i, text[i + 1])
         IN  IF r.ok THEN InsertChars(r.val, word_start, text, i + 1) ELSE Panic

\* accept_suggestion leaving the replaced word in place.
AcceptTextNoDrain(input, cursor, suggestion) ==
    LET inserted == InsertChars(input, cursor, suggestion.text, 0)
        end == cursor + ByteLen(suggestion.text)
        spaced == IF inserted.ok THEN StringInsert(inserted.val, end, " ") ELSE Panic
    IN  IF ~inserted.ok THEN EditPanic(input, cursor)
        ELSE IF suggestion.suggestion_type = "Keyword"
        THEN (IF spaced.ok THEN Edited(spaced.val, end + 1) ELSE EditPanic(input, cursor))
        ELSE Edited(inserted.val, end)

\* App::accept_suggestion, the text and the cursor: the word before the cursor is
\* found in the Vec<char> with the cursor as index, drained with byte offsets and
\* replaced by the suggestion's text; a keyword gets a space after it.
AcceptText(input, cursor, suggestion) ==
    IF cursor > Len(input) THEN EditPanic(input, cursor)
    ELSE LET word_start == WordStartFrom(input, cursor)
             drained == StringDrain(input, word_start, cursor)
             inserted == IF drained.ok
                         THEN InsertChars(drained.val, word_start, suggestion.text, 0)
                         ELSE Panic
             end == word_start + ByteLen(suggestion.text)
             spaced == IF inserted.ok THEN StringInsert(inserted.val, end, " ") ELSE Panic
         IN  IF ~inserted.ok THEN EditPanic(input, cursor)
             ELSE IF suggestion.suggestion_type = "Keyword"
             THEN (IF spaced.ok THEN Edited(spaced.val, end + 1) ELSE EditPanic(input, cursor))
             ELSE Edited(inserted.val, end)

\* format_current_query leaving the cursor where it was.
FormatCurrentQueryKeepsCursor(input, cursor) ==
    IF input = << >> THEN Edited(input, cursor)
    ELSE IF Semicolons(input) = << >>
    THEN Edited(Format(input), cursor)
    ELSE LET query_start == QueryStart(Semicolons(input), cursor)
             query_end == QueryEnd(Semicolons(input), cursor, ByteLen(input))
             query == SliceOrPanic(input, query_start, query_end)
             head == SliceOrPanic(input, 0, query_start)
             rest == SliceOrPanic(input, query_end, ByteLen(input))
             formatted_query == Format(Trim(query.val))
         IN  IF ~query.ok \/ ~head.ok \/ ~rest.ok THEN EditPanic(input, cursor)
             ELSE Edited(head.val \o (IF query_start > 0 THEN << "\n" >> ELSE << >>)
                           \o formatted_query \o rest.val,
                         cursor)

\* format_current_query formatting the whole text whatever it contains.
FormatCurrentQueryWholeText(input, cursor) ==
    IF input = << >> THEN Edited(input, cursor)
    ELSE Edited(Format(input), ByteLen(Format(input)))

\* App::format_current_query
FormatCurrentQuery(input, cursor) ==
    IF input = << >> THEN Edited(input, cursor)
    ELSE IF Semicolons(input) = << >>
    THEN Edited(Format(input), ByteLen(Format(input)))
    ELSE LET query_start == QueryStart(Semicolons(input), cursor)
             query_end == QueryEnd(Semicolons(input), cursor, ByteLen(input))
             query == SliceOrPanic(input, query_start, query_end)
             head == SliceOrPanic(input, 0, query_start)
             rest == SliceOrPanic(input, query_end, ByteLen(input))
             formatted_query == Format(Trim(query.val))
         IN  IF ~query.ok \/ ~head.ok \/ ~rest.ok THEN EditPanic(input, cursor)
             ELSE Edited(head.val \o (IF query_start > 0 THEN << "\n" >> ELSE << >>)
                           \o formatted_query \o rest.val,
                         query_start + ByteLen(formatted_query)
                           + (IF query_start > 0 THEN 1 ELSE 0))

\* select_next_suggestion always moving to the following index.
SelectNextNoWrap(list, selected) == IF list # << >> THEN selected + 1 ELSE selected

\* App::select_next_suggestion
SelectNext(list, selected) ==
    IF list # << >> THEN (selected + 1) % Len(list) ELSE selected

\* App::select_prev_suggestion
SelectPrev(list, selected) ==
    IF list # << >>
    THEN (IF selected = 0 THEN Len(list) - 1 ELSE selected - 1)
    ELSE selected

\* What the metadata queries of one lazy load bring: the tables of the database
\* with their columns, and how many of them are fetched before a query fails
\* (all of them when none fails).
LoadOutcomes == {[snapshot |-> SchemaTwo, fetched |-> k] : k \in 0..Len(SchemaTwo)}

NoFetch == [snapshot |-> << >>, fetched |-> 0]

\* A lazy load that publishes the tables fetched so far when a query fails.
LazyLoadPartial(eng, loaded, has_client, outcome) ==
    IF ~loaded /\ has_client
    THEN IF outcome.fetched = Len(outcome.snapshot)
         THEN [err |-> FALSE, called |-> TRUE, loaded |-> TRUE,
               engine |-> UpdateSchemaEngine(eng, outcome.snapshot)]
         ELSE [err |-> TRUE, called |-> FALSE, loaded |-> loaded,
               engine |-> UpdateSchemaEngine(eng, SubSeq(outcome.snapshot, 1, outcome.fetched))]
    ELSE [err |-> FALSE, called |-> FALSE, loaded |-> loaded, engine |-> eng]

\* A lazy load that does not look at autocomplete_schema_loaded.
LazyLoadEveryTime(eng, loaded, has_client, outcome) ==
    IF has_client /\ outcome.fetched = Len(outcome.snapshot) /\ outcome # NoFetch
    THEN [err |-> FALSE, called |-> TRUE, loaded |-> TRUE,
          engine |-> UpdateSchemaEngine(eng, outcome.snapshot)]
    ELSE [err |-> FALSE, called |-> FALSE, loaded |-> loaded, engine |-> eng]

\* update_autocomplete, the lazy load: without the flag and with a client, the
\* tables and columns are collected in a local Vec; a failing query returns the
\* error (`?`) before update_schema is called and before the flag is set.
LazyLoad(eng, loaded, has_client, outcome) ==
    IF ~loaded /\ has_client
    THEN IF outcome.fetched = Len(outcome.snapshot)
         THEN [err |-> FALSE, called |-> TRUE, loaded |-> TRUE,
               engine |-> UpdateSchemaEngine(eng, outcome.snapshot)]
         ELSE [err |-> TRUE, called |-> FALSE, loaded |-> loaded, engine |-> eng]
    ELSE [err |-> FALSE, called |-> FALSE, loaded |-> loaded, engine |-> eng]

\* App::update_autocomplete on the editor text the handler left; an error makes
\* run_app return (main.rs: `app.update_autocomplete().await?`).
UpdateAutocomplete(input, cursor) ==
    \E outcome \in (IF client THEN LoadOutcomes ELSE {NoFetch}) :
        \E load \in {LazyLoad(engine, autocomplete_schema_loaded, client, outcome)} :
            /\ engine' = load.engine
            /\ autocomplete_schema_loaded' = load.loaded
            /\ last_schema' = IF load.called THEN outcome.snapshot ELSE last_schema
            /\ schema_loads' = IF load.called THEN schema_loads + 1 ELSE schema_loads
            /\ hash_order' \in (IF load.called \/ load.engine # engine
                                THEN IterationOrders(Keys(load.engine.columns))
                                ELSE {hash_order})
            /\ query_input' = input
            /\ query_cursor' = cursor
            /\ UNCHANGED browserVars
            /\ IF load.err
               THEN /\ pc' = "exited"
                    /\ UNCHANGED << suggestions, show_autocomplete, suggestion_selected >>
               ELSE \E r \in {GetSuggestions(load.engine, hash_order', input, cursor)} :
                        IF r.ok
                        THEN /\ suggestions' = r
                             /\ show_autocomplete' = (r.val # << >>)
                             /\ suggestion_selected' = 0
                             /\ pc' = pc
                        ELSE /\ pc' = "panicked"
                             /\ UNCHANGED << suggestions, show_autocomplete,
                                             suggestion_selected >>

\* The longest text that is edited with the text keys, in chars; a character key
\* or Enter is given a shorter one.
MaxEditLen == 2

\* The characters typed in the editor.
EditChars == {"n", ";", WideLower}

\* The keys that reach App::handle_query_input whatever the popup shows.
TextKeys == {KeyChar(c) : c \in EditChars}
            \cup {KeyCode(k) : k \in {"Enter", "Backspace", "Left", "Right"}}

\* The handler panicked: the process ends with the state it had reached.
Panicked(input, cursor) ==
    /\ pc' = "panicked"
    /\ query_input' = input
    /\ query_cursor' = cursor
    /\ UNCHANGED << acVars, histVars, browserVars, suggestion_selected, show_autocomplete,
                    autocomplete_schema_loaded >>

\* main.rs handle_query_input, the `_` arm: handle_query_input(key),
\* adjust_query_scroll(8), update_autocomplete().
EditAndSuggest(key) ==
    \E h \in {HandleQueryInput(query_input, query_cursor, key)} :
        IF ~h.ok \/ ~AdjustQueryScroll(h.input, h.cursor)
        THEN Panicked(h.input, h.cursor)
        ELSE UpdateAutocomplete(h.input, h.cursor)

InQuery == pc = "running" /\ mode = "Query"

\* A character key, Enter, Backspace, Left or Right in the query editor.
KeyText(key) ==
    /\ InQuery
    /\ Len(query_input) <= MaxEditLen
    /\ key.code \in {"Char", "Enter"} => Len(query_input) < MaxEditLen
    /\ EditAndSuggest(key)
    /\ UNCHANGED << context, lexVars, extracted, mode, client >>

\* Down: select_next_suggestion while the popup shows, the `_` arm otherwise.
KeyDown ==
    /\ InQuery
    /\ IF show_autocomplete
       THEN /\ suggestion_selected' = SelectNext(suggestions.val, suggestion_selected)
            /\ UNCHANGED << pc, query_input, query_cursor, engine, hash_order, suggestions,
                            show_autocomplete, autocomplete_schema_loaded, histVars, browserVars >>
       ELSE EditAndSuggest(KeyCode("Down"))
    /\ UNCHANGED << context, lexVars, extracted, mode, client >>

\* Up: select_prev_suggestion while the popup shows, the `_` arm otherwise.
KeyUp ==
    /\ InQuery
    /\ IF show_autocomplete
       THEN /\ suggestion_selected' = SelectPrev(suggestions.val, suggestion_selected)
            /\ UNCHANGED << pc, query_input, query_cursor, engine, hash_order, suggestions,
                            show_autocomplete, autocomplete_schema_loaded, histVars, browserVars >>
       ELSE EditAndSuggest(KeyCode("Up"))
    /\ UNCHANGED << context, lexVars, extracted, mode, client >>

\* Esc: hide_autocomplete while the popup shows, the `_` arm otherwise.
KeyEsc ==
    /\ InQuery
    /\ IF show_autocomplete
       THEN /\ show_autocomplete' = FALSE
            /\ suggestions' = Ok(<< >>)
            /\ suggestion_selected' = 0
            /\ UNCHANGED << pc, query_input, query_cursor, engine, hash_order,
                            autocomplete_schema_loaded, histVars, browserVars >>
       ELSE EditAndSuggest(KeyCode("Esc"))
    /\ UNCHANGED << context, lexVars, extracted, mode, client >>

\* Tab while the popup shows: accept_suggestion, then update_autocomplete.
KeyTabAccept ==
    /\ InQuery
    /\ show_autocomplete
    /\ IF suggestion_selected < Len(suggestions.val)
       THEN \E a \in {AcceptText(query_input, query_cursor,
                                 suggestions.val[suggestion_selected + 1])} :
                IF a.ok THEN UpdateAutocomplete(a.input, a.cursor)
                ELSE Panicked(a.input, a.cursor)
       ELSE UpdateAutocomplete(query_input, query_cursor)
    /\ UNCHANGED << context, lexVars, extracted, mode, client >>

\* Tab while the popup is hidden: back to the browser.
KeyTabToBrowser ==
    /\ InQuery
    /\ ~show_autocomplete
    /\ mode' = "Browser"
    /\ UNCHANGED << pc, lexVars, appVars, acVars, histVars, browserVars, client, suggestion_selected,
                    show_autocomplete, autocomplete_schema_loaded >>

\* Alt+Shift+F: format_current_query.
KeyFormat ==
    /\ InQuery
    /\ \E f \in {FormatCurrentQuery(query_input, query_cursor)} :
           /\ query_input' = f.input
           /\ query_cursor' = f.cursor
           /\ pc' = IF f.ok THEN pc ELSE "panicked"
    /\ UNCHANGED << lexVars, extracted, acVars, histVars, browserVars, mode, client, suggestion_selected,
                    show_autocomplete, autocomplete_schema_loaded >>

(***************************************************************************)
(* The database browser                                                    *)
(***************************************************************************)

\* What the metadata queries of the database return: list_schemas, and
\* list_tables, list_views and list_functions of each schema.
DbSchemas == << <<"a">>, <<"b">> >>
ListTables(schema) == IF schema = <<"a">> THEN << <<"t">> >> ELSE << >>
ListViews(schema) == IF schema = <<"b">> THEN << <<"a">> >> ELSE << >>
ListFunctions(schema) == IF schema = <<"a">> THEN << <<"f">> >> ELSE << >>

\* BrowserItem::Schema, ::Folder, and ::Table, ::View or ::Function
SchemaItem(schema_name) == [kind |-> "Schema", name |-> schema_name]
FolderItem(schema, folder_type) ==
    [kind |-> "Folder", schema |-> schema, folder_type |-> folder_type]
ObjectItem(kind, schema, object_name) ==
    [kind |-> kind, schema |-> schema, name |-> object_name]

\* format!("schema:{}", schema) and format!("folder:{}:{:?}", schema, folder_type)
SchemaKey(schema) == << "schema", schema >>
FolderKey(schema, folder_type) == << "folder", schema, folder_type >>

\* The browser fields of App, and the outcome of a handler on them (err: a
\* metadata query failed and the handler returned the error).
Browser(items, selected, expanded) ==
    [err |-> FALSE, items |-> items, selected |-> selected, expanded |-> expanded]
BrowserErr(items, selected, expanded) ==
    [err |-> TRUE, items |-> items, selected |-> selected, expanded |-> expanded]

\* App::refresh_browser with a client: one Schema item per schema; the
\* selection and the expanded set are not touched.
RefreshBrowser(items, selected, expanded, schemas) ==
    Browser([i \in 1..Len(schemas) |-> SchemaItem(schemas[i])], selected, expanded)

\* App::browser_up
BrowserUp(selected) == IF selected > 0 THEN selected - 1 ELSE selected

\* App::browser_down
BrowserDown(items, selected) ==
    IF selected < (IF Len(items) >= 1 THEN Len(items) - 1 ELSE 0)
    THEN selected + 1 ELSE selected

\* Vec::insert of the elements of xs, in order, from index pos on.
InsertAll(items, pos, xs) == SubSeq(items, 1, pos) \o xs \o SubSeq(items, pos + 1, Len(items))

\* The loop `for _ in 0..remove_count { if start_pos < len { remove(start_pos) } }`
RemoveFrom(items, start_pos, remove_count) ==
    IF start_pos >= Len(items) THEN items
    ELSE SubSeq(items, 1, start_pos)
         \o SubSeq(items, start_pos + Min(remove_count, Len(items) - start_pos) + 1,
                   Len(items))

IsChild(item) == item.kind \in {"Table", "View", "Function"}

RECURSIVE ChildrenFrom(_, _)
\* The number of Table, View and Function items in a row from index i on.
ChildrenFrom(items, i) ==
    IF i < Len(items) /\ IsChild(items[i + 1]) THEN 1 + ChildrenFrom(items, i + 1) ELSE 0

RECURSIVE FoldersFrom(_, _, _)
\* collapse_schema, the counting loop from index i on: up to three folders in
\* a row, each with its children; the folder keys it removes on the way.
FoldersFrom(items, i, folders_found) ==
    IF i < Len(items) /\ folders_found < 3 /\ items[i + 1].kind = "Folder"
    THEN LET children == ChildrenFrom(items, i + 1)
             rest == FoldersFrom(items, i + 1 + children, folders_found + 1)
         IN  [remove_count |-> 1 + children + rest.remove_count,
              keys |-> {FolderKey(items[i + 1].schema, items[i + 1].folder_type)}
                       \cup rest.keys]
    ELSE [remove_count |-> 0, keys |-> {}]

\* The selection after remove_count items were removed from start_pos on.
AdjustSelection(selected, start_pos, remove_count) ==
    IF selected >= start_pos /\ selected < start_pos + remove_count THEN start_pos - 1
    ELSE IF selected >= start_pos + remove_count THEN selected - remove_count
    ELSE selected

\* App::collapse_schema
CollapseSchema(items, selected, expanded, key) ==
    LET start_pos == selected + 1
        found == FoldersFrom(items, start_pos, 0)
    IN  Browser(RemoveFrom(items, start_pos, found.remove_count),
                AdjustSelection(selected, start_pos, found.remove_count),
                (expanded \ found.keys) \ {key})

\* App::collapse_folder
CollapseFolder(items, selected, expanded, key) ==
    LET start_pos == selected + 1
        remove_count == ChildrenFrom(items, start_pos)
    IN  Browser(RemoveFrom(items, start_pos, remove_count),
                AdjustSelection(selected, start_pos, remove_count),
                expanded \ {key})

\* The three folders of a schema.
Folders(schema) ==
    << FolderItem(schema, "Tables"), FolderItem(schema, "Views"),
       FolderItem(schema, "Functions") >>

\* The items a folder shows when it opens.
FolderChildren(schema, folder_type) ==
    LET names == IF folder_type = "Tables" THEN ListTables(schema)
                 ELSE IF folder_type = "Views" THEN ListViews(schema)
                 ELSE ListFunctions(schema)
        kind == IF folder_type = "Tables" THEN "Table"
                ELSE IF folder_type = "Views" THEN "View" ELSE "Function"
    IN  [i \in 1..Len(names) |-> ObjectItem(kind, schema, names[i])]

\* App::browser_select; db_ok: the metadata queries it sends succeed.
BrowserSelect(items, selected, expanded, has_client, db_ok) ==
    IF selected >= Len(items) \/ ~has_client THEN Browser(items, selected, expanded)
    ELSE LET item == items[selected + 1]
         IN  IF item.kind = "Schema"
             THEN IF SchemaKey(item.name) \in expanded
                  THEN CollapseSchema(items, selected, expanded, SchemaKey(item.name))
                  ELSE Browser(InsertAll(items, selected + 1, Folders(item.name)),
                               selected, expanded \cup {SchemaKey(item.name)})
             ELSE IF item.kind = "Folder"
             THEN IF FolderKey(item.schema, item.folder_type) \in expanded
                  THEN CollapseFolder(items, selected, expanded,
                                      FolderKey(item.schema, item.folder_type))
                  ELSE IF ~db_ok THEN BrowserErr(items, selected, expanded)
                  ELSE Browser(InsertAll(items, selected + 1,
                                         FolderChildren(item.schema, item.folder_type)),
                               selected,
                               expanded \cup {FolderKey(item.schema, item.folder_type)})
             ELSE IF item.kind \in {"Table", "View"} /\ ~db_ok
             THEN BrowserErr(items, selected, expanded)
             ELSE Browser(items, selected, expanded)

\* get_filtered_items: does the item match the lower-cased filter?
ItemMatches(item, filter_lower) ==
    IF item.kind = "Schema" THEN Contains(ToLowercase(item.name), filter_lower)
    ELSE IF item.kind = "Folder" THEN FALSE
    ELSE \/ Contains(ToLowercase(item.name), filter_lower)
         \/ Contains(ToLowercase(item.schema), filter_lower)

RECURSIVE MatchingFrom(_, _, _)
\* The indices, from idx on, of the items that match.
MatchingFrom(items, filter_lower, idx) ==
    IF idx >= Len(items) THEN << >>
    ELSE (IF ItemMatches(items[idx + 1], filter_lower) THEN << idx >> ELSE << >>)
         \o MatchingFrom(items, filter_lower, idx + 1)

\* App::get_filtered_items
GetFilteredItems(items, active, input) ==
    IF ~active \/ input = << >> THEN [i \in 1..Len(items) |-> i - 1]
    ELSE MatchingFrom(items, ToLowercase(input), 0)

\* filtered.iter().position(|&idx| idx == selected): 0 for None, else 1-based.
PositionIn(filtered, selected) ==
    IF \E k \in 1..Len(filtered) : filtered[k] = selected
    THEN CHOOSE k \in 1..Len(filtered) :
             filtered[k] = selected /\ \A m \in 1..(k - 1) : filtered[m] # selected
    ELSE 0

\* handle_browser_input, filter mode, Up and Down
FilterUp(filtered, selected) ==
    IF PositionIn(filtered, selected) > 1
    THEN filtered[PositionIn(filtered, selected) - 1] ELSE selected
FilterDown(filtered, selected) ==
    IF PositionIn(filtered, selected) > 0 /\ PositionIn(filtered, selected) < Len(filtered)
    THEN filtered[PositionIn(filtered, selected) + 1] ELSE selected

\* App::handle_filter_input
HandleFilterInput(input, key) ==
    IF key.code = "Char" THEN input \o << key.ch >>
    ELSE IF key.code = "Backspace" THEN SubSeq(input, 1, Len(input) - 1)
    ELSE input

\* handle_browser_input, filter mode, after the filter text changed: the
\* selection moves to the first filtered item unless it is one of them.
SelectFiltered(filtered, selected) ==
    IF filtered # << >> /\ PositionIn(filtered, selected) = 0 THEN filtered[1]
    ELSE selected

\* Enter in the profile list, or n: the connection form opens.
OpenConnectionEdit ==
    /\ pc = "running" /\ mode = "ConnectionSelector"
    /\ mode' = "ConnectionEdit"
    /\ UNCHANGED << pc, lexVars, appVars, acVars, histVars, browserVars, client, suggestion_selected,
                    show_autocomplete, autocomplete_schema_loaded >>

\* What App::connect can meet: a port that does not parse, a connection the
\* driver refuses, a list_schemas query that fails, or none of these.
ConnectOutcomes == {"port", "driver", "schemas", "ok"}

\* App::connect with the mode set whatever the driver said.
ConnectAlwaysBrowses(outcome) ==
    /\ pc = "running" /\ mode = "ConnectionEdit"
    /\ client' = IF outcome \in {"schemas", "ok"} THEN TRUE ELSE client
    /\ mode' = "Browser"
    /\ \E r \in {RefreshBrowser(browser_items, browser_selected, expanded_items,
                                 DbSchemas)} :
           browser_items' = IF outcome = "ok" THEN r.items ELSE browser_items
    /\ UNCHANGED << pc, lexVars, appVars, acVars, histVars, suggestion_selected,
                    show_autocomplete, autocomplete_schema_loaded, browser_selected,
                    expanded_items, filter_input, filter_active >>

\* Enter in the connection form: App::connect.  The port is parsed and the
\* driver connects; only then is the client kept and the mode set to Browser,
\* and refresh_browser lists the schemas.
Connect(outcome) ==
    /\ pc = "running" /\ mode = "ConnectionEdit"
    /\ client' = IF outcome \in {"schemas", "ok"} THEN TRUE ELSE client
    /\ mode' = IF outcome \in {"schemas", "ok"} THEN "Browser" ELSE mode
    /\ \E r \in {RefreshBrowser(browser_items, browser_selected, expanded_items,
                                 DbSchemas)} :
           browser_items' = IF outcome = "ok" THEN r.items ELSE browser_items
    /\ UNCHANGED << pc, lexVars, appVars, acVars, histVars, suggestion_selected,
                    show_autocomplete, autocomplete_schema_loaded, browser_selected,
                    expanded_items, filter_input, filter_active >>

\* Esc in the connection form: back to the profile list.
BackToSelector ==
    /\ pc = "running" /\ mode = "ConnectionEdit"
    /\ mode' = "ConnectionSelector"
    /\ UNCHANGED << pc, lexVars, appVars, acVars, histVars, browserVars, client, suggestion_selected,
                    show_autocomplete, autocomplete_schema_loaded >>

InBrowser == pc = "running" /\ mode = "Browser"

\* Tab in the browser: the query editor; while the filter is active the key
\* goes to the filter instead, which ignores it and checks the selection.
BrowserTab ==
    /\ InBrowser
    /\ IF filter_active
       THEN /\ browser_selected' =
                 SelectFiltered(GetFilteredItems(browser_items, filter_active, filter_input),
                                browser_selected)
            /\ UNCHANGED mode
       ELSE /\ mode' = "Query"
            /\ UNCHANGED browser_selected
    /\ UNCHANGED << pc, lexVars, appVars, acVars, histVars, client, suggestion_selected,
                    show_autocomplete, autocomplete_schema_loaded, browser_items,
                    expanded_items, filter_input, filter_active >>

\* App::new
InitApp ==
    /\ pc = "running"
    /\ mode = "ConnectionSelector" /\ client = FALSE
    /\ suggestion_selected = 0 /\ show_autocomplete = FALSE
    /\ autocomplete_schema_loaded = FALSE
    /\ IdleHist /\ IdleBrowser /\ IdleApp /\ IdleAc /\ IdleLex

\* The keys of the selector, the connection form and the query editor; what a
\* failing list_schemas leaves in the browser is followed in NextBrowser.
NextApp ==
    \/ OpenConnectionEdit
    \/ \E outcome \in ConnectOutcomes \ {"schemas"} : Connect(outcome)
    \/ BackToSelector
    \/ BrowserTab
    \/ \E key \in TextKeys : KeyText(key)
    \/ KeyDown
    \/ KeyUp
    \/ KeyEsc
    \/ KeyTabAccept
    \/ KeyTabToBrowser
    \/ KeyFormat

SpecApp == InitApp /\ [][NextApp]_vars


(***************************************************************************)
(* The schema cache: update_schema called any number of times              *)
(***************************************************************************)

\* The largest number of update_schema calls on one engine.
MaxSchemaLoads == 2

\* The column lists and the snapshots handed to update_schema: at most two
\* (table, columns) pairs, the same table twice included.
ColumnLists == { << >>, << <<"i","d">> >>, << name >>, << <<"i","d">>, name >> }

SchemaPairs == { << t, c >> : t \in {users, notes}, c \in ColumnLists }

SchemaSnapshots ==
    { << >> } \cup { << p >> : p \in SchemaPairs }
              \cup { << p, q >> : p \in SchemaPairs, q \in SchemaPairs }

InitSchema ==
    /\ pc = "ready"
    /\ IdleUi /\ IdleHist /\ IdleBrowser /\ IdleLex
    /\ query_input = << >>
    /\ query_cursor = 0
    /\ extracted = Ok(<< >>)
    /\ engine = NewEngine
    /\ hash_order = << >>
    /\ context = "None"
    /\ suggestions = Ok(<< >>)

NextSchema ==
    \E snapshot \in SchemaSnapshots :
        /\ schema_loads < MaxSchemaLoads
        /\ UpdateSchema(snapshot)
        /\ schema_loads' = schema_loads + 1

SpecSchema == InitSchema /\ [][NextSchema]_vars


(***************************************************************************)
(* The formatter applied to inputs with joins                              *)
(***************************************************************************)

\* The largest number of pieces in an input with joins.
MaxJoinPieces == 3

JoinPieces ==
    { <<"l","e","f","t">>, <<"j","o","i","n">>, <<"i","n","n","e","r">>, <<" ">>, <<"a">>,
      <<"(">> }

InitJoins ==
    /\ pc = "ready"
    /\ IdleUi /\ IdleHist /\ IdleBrowser
    /\ sql \in PieceStrings(JoinPieces, MaxJoinPieces)
    /\ tokens = << >> /\ formatted = << >> /\ reformatted = << >>
    /\ IdleApp /\ IdleAc

SpecJoins == InitJoins /\ [][NextFormatter]_vars


(***************************************************************************)
(* The formatter applied to inputs with commas in and after a column list  *)
(***************************************************************************)

\* The largest number of pieces in an input with commas.
MaxCommaPieces == 4

CommaPieces ==
    { <<"s","e","l","e","c","t"," ","1">>, <<" ","f","r","o","m"," ","b">>,
      <<"f","r","o","m"," ","b">>, <<",">>, <<"c">>,
      <<" ","i","n"," ","(","1">> }

InitCommas ==
    /\ pc = "ready"
    /\ IdleUi /\ IdleHist /\ IdleBrowser
    /\ sql \in PieceStrings(CommaPieces, MaxCommaPieces)
    /\ tokens = << >> /\ formatted = << >> /\ reformatted = << >>
    /\ IdleApp /\ IdleAc

SpecCommas == InitCommas /\ [][NextFormatter]_vars


(***************************************************************************)
(* The formatter applied to inputs with parentheses                        *)
(***************************************************************************)

\* The largest number of pieces in an input with parentheses.
MaxParenPieces == 4

ParenPieces ==
    { <<"(">>, <<")">>, <<"a">>, <<"s","e","l","e","c","t"," ">>, <<",">>, <<"'","(","'">> }

InitParens ==
    /\ pc = "ready"
    /\ IdleUi /\ IdleHist /\ IdleBrowser
    /\ sql \in PieceStrings(ParenPieces, MaxParenPieces)
    /\ tokens = << >> /\ formatted = << >> /\ reformatted = << >>
    /\ IdleApp /\ IdleAc

SpecParens == InitParens /\ [][NextFormatter]_vars


(***************************************************************************)
(* The editor: format the statement under the cursor, run it               *)
(***************************************************************************)

\* The largest number of pieces in an editor text that is formatted in place.
MaxEditorPieces == 3

EditorPieces ==
    { <<"s","e","l","e","c","t"," ","1">>, <<"f","r","o","m"," ","b">>,
      <<";">>, <<" ">>, <<WideLower>> }

\* An editor in Query mode on a connected database, the cursor on a char
\* boundary of the text.
InitEditor ==
    /\ pc = "running"
    /\ mode = "Query" /\ client = TRUE
    /\ suggestion_selected = 0 /\ show_autocomplete = FALSE
    /\ autocomplete_schema_loaded = FALSE
    /\ query_input \in PieceStrings(EditorPieces, MaxEditorPieces)
    /\ query_cursor \in {b \in 0..ByteLen(query_input) : IsCharBoundary(query_input, b)}
    /\ extracted = Ok(<< >>)
    /\ IdleHist /\ IdleBrowser /\ IdleAc /\ IdleLex

\* Ctrl+Enter or F5: App::execute_query hands the statement under the cursor to
\* the database.
ExecuteQuery ==
    /\ InQuery /\ client
    /\ extracted' = ExtractCurrentQuery(query_input, query_cursor)
    /\ pc' = IF extracted'.ok THEN pc ELSE "panicked"
    /\ UNCHANGED << query_input, query_cursor, lexVars, acVars, uiVars, histVars, browserVars >>

NextEditor == KeyFormat \/ ExecuteQuery

SpecEditor == InitEditor /\ [][NextEditor]_vars


(***************************************************************************)
(* The application: connecting and browsing                                *)
(***************************************************************************)

\* The longest filter text typed in the browser.
MaxFilterLen == 1

\* The character keys pressed in the browser.
BrowserChars == {"r", "/", "a", "t"}

\* The fields no browser key touches.
BrowserFrame ==
    UNCHANGED << lexVars, appVars, acVars, histVars, mode, client, suggestion_selected,
                 show_autocomplete, autocomplete_schema_loaded >>

\* Up: in the filtered view while the filter is active, browser_up otherwise.
KeyBrowserUp ==
    /\ InBrowser
    /\ browser_selected' =
         IF filter_active
         THEN FilterUp(GetFilteredItems(browser_items, filter_active, filter_input),
                       browser_selected)
         ELSE BrowserUp(browser_selected)
    /\ UNCHANGED << pc, browser_items, expanded_items, filter_input, filter_active >>
    /\ BrowserFrame

\* Down: in the filtered view while the filter is active, browser_down otherwise.
KeyBrowserDown ==
    /\ InBrowser
    /\ browser_selected' =
         IF filter_active
         THEN FilterDown(GetFilteredItems(browser_items, filter_active, filter_input),
                         browser_selected)
         ELSE BrowserDown(browser_items, browser_selected)
    /\ UNCHANGED << pc, browser_items, expanded_items, filter_input, filter_active >>
    /\ BrowserFrame

\* Enter, with or without the filter: browser_select; an error of a metadata
\* query makes run_app return.
KeyBrowserEnter ==
    /\ InBrowser
    /\ \E db_ok \in BOOLEAN :
         \E r \in {BrowserSelect(browser_items, browser_selected, expanded_items,
                                 client, db_ok)} :
           /\ browser_items' = r.items
           /\ browser_selected' = r.selected
           /\ expanded_items' = r.expanded
           /\ pc' = IF r.err THEN "exited" ELSE pc
    /\ UNCHANGED << filter_input, filter_active >>
    /\ BrowserFrame

\* A character key: text for the filter while it is active; otherwise '/'
\* activates the filter, 'r' is refresh_browser, and the rest does nothing.
KeyBrowserChar(c) ==
    /\ InBrowser
    /\ IF filter_active
       THEN /\ Len(filter_input) < MaxFilterLen
            /\ filter_input' = HandleFilterInput(filter_input, KeyChar(c))
            /\ browser_selected' =
                 SelectFiltered(GetFilteredItems(browser_items, filter_active, filter_input'),
                                browser_selected)
            /\ UNCHANGED << pc, browser_items, expanded_items, filter_active >>
       ELSE IF c = "/"
       THEN /\ filter_active' = TRUE
            /\ UNCHANGED << pc, browser_items, browser_selected, expanded_items,
                            filter_input >>
       ELSE IF c = "r"
       THEN \E db_ok \in BOOLEAN :
              \E r \in {RefreshBrowser(browser_items, browser_selected, expanded_items,
                                       DbSchemas)} :
                /\ browser_items' = IF db_ok THEN r.items ELSE browser_items
                /\ browser_selected' = IF db_ok THEN r.selected ELSE browser_selected
                /\ expanded_items' = IF db_ok THEN r.expanded ELSE expanded_items
                /\ pc' = IF db_ok THEN pc ELSE "exited"
                /\ UNCHANGED << filter_input, filter_active >>
       ELSE UNCHANGED << pc, browserVars >>
    /\ BrowserFrame

\* Backspace: shortens the filter text while the filter is active.
KeyBrowserBackspace ==
    /\ InBrowser
    /\ filter_active
    /\ filter_input' = HandleFilterInput(filter_input, KeyCode("Backspace"))
    /\ browser_selected' =
         SelectFiltered(GetFilteredItems(browser_items, filter_active, filter_input'),
                        browser_selected)
    /\ UNCHANGED << pc, browser_items, expanded_items, filter_active >>
    /\ BrowserFrame

\* Esc while the filter is active: clear_filter.
KeyBrowserEsc ==
    /\ InBrowser
    /\ filter_active
    /\ filter_input' = << >>
    /\ filter_active' = FALSE
    /\ UNCHANGED << pc, browser_items, browser_selected, expanded_items >>
    /\ BrowserFrame

NextBrowser ==
    \/ OpenConnectionEdit
    \/ \E outcome \in ConnectOutcomes : Connect(outcome)
    \/ BackToSelector
    \/ BrowserTab
    \/ KeyTabToBrowser
    \/ KeyBrowserUp
    \/ KeyBrowserDown
    \/ KeyBrowserEnter
    \/ \E c \in BrowserChars : KeyBrowserChar(c)
    \/ KeyBrowserBackspace
    \/ KeyBrowserEsc

SpecBrowser == InitApp /\ [][NextBrowser]_vars

-----------------------------------------------------------------------------
(* Properties                                                              *)

\* C1: Lexer round-trip: the texts of the tokens of tokenize(s), concatenated in
\* order, are exactly s.
LexerRoundTrip == pc = "tokenized" => TokenText(tokens) = sql

\* A tokenized input of several tokens: a closed string, then a comment.
LexerRoundTripWitness ==
    /\ pc = "tokenized"
    /\ Len(tokens) = 2
    /\ tokens[1].token_type = "String"
    /\ tokens[2].token_type = "Comment"

\* C2: Formatter idempotence: format(format(s)) = format(s) for every input s.
FormatIdempotent == pc = "reformatted" => reformatted = formatted

\* A ';' sits at byte offset b of s.
SemicolonAt(s, b) == \E i \in 1..Len(s) : s[i] = ";" /\ ByteOffset(s, i) = b

\* No ';' at any byte offset in from..(to - 1).
NoSemicolonIn(s, from, to) == \A b \in from..(to - 1) : ~SemicolonAt(s, b)

\* start is one past the last ';' strictly before the cursor, 0 if there is none.
IsStatementStart(s, cursor, start) ==
    /\ NoSemicolonIn(s, start, cursor)
    /\ start = 0 \/ (SemicolonAt(s, start - 1) /\ start - 1 < cursor)

\* end is the first ';' at or after the cursor, len(text) if there is none.
IsStatementEnd(s, cursor, end) ==
    /\ NoSemicolonIn(s, cursor, end)
    /\ (SemicolonAt(s, end) /\ end >= cursor) \/ end = ByteLen(s)

\* C3: Statement extraction: with at least one ';' in the text and the cursor in
\* [0, len(text)], the result is trim(text[start..end]) for the start and end the
\* claim describes, start <= end, and a cursor on a ';' yields the statement
\* that ends at that ';' ("SELECT 1" for "SELECT 1; SELECT 2").
ExtractionBounds ==
    (/\ pc = "extracted"
     /\ Semicolons(query_input) # << >>
     /\ query_cursor <= ByteLen(query_input))
    => /\ \E start, end \in 0..ByteLen(query_input) :
            /\ IsStatementStart(query_input, query_cursor, start)
            /\ IsStatementEnd(query_input, query_cursor, end)
            /\ start <= end
            /\ SemicolonAt(query_input, query_cursor) => end = query_cursor
            /\ extracted = Ok(Trim(ByteSlice(query_input, start, end)))
       /\ (query_input = TwoStatements /\ query_cursor = 8)
            => extracted = Ok(<<"S","E","L","E","C","T"," ","1">>)

\* The cursor sits on the second ';' and the statement between the two is returned.
ExtractionBoundsWitness ==
    /\ pc = "extracted"
    /\ query_cursor > 0
    /\ SemicolonAt(query_input, query_cursor)
    /\ \E b \in 0..(query_cursor - 1) : SemicolonAt(query_input, b)
    /\ extracted.ok /\ extracted.val # << >>

\* The position the word scanner starts from, as a number of chars.
CursorChars == Min(query_cursor, Len(query_input))

\* The number of chars before the maximal run of word chars that ends at char p.
RunStart(s, p) ==
    CHOOSE k \in 0..p :
        /\ \A j \in (k + 1)..p : IsWordChar(s[j])
        /\ k = 0 \/ ~IsWordChar(s[k])

\* The current word: the maximal run of word chars ending at the cursor.
CurrentWord == SubSeq(query_input, RunStart(query_input, CursorChars) + 1, CursorChars)

\* The text before the current word.
BeforeWord == SubSeq(query_input, 1, RunStart(query_input, CursorChars))

\* The current word is non-empty and the char right before it is '.'.
DotQualified == CurrentWord # << >> /\ EndsWithChar(BeforeWord, ".")

\* The identifier before the dot.
Qualifier ==
    SubSeq(BeforeWord, RunStart(BeforeWord, Len(BeforeWord) - 1) + 1, Len(BeforeWord) - 1)

\* Case-insensitive prefix match.
MatchesWord(text, word) == StartsWith(ToUppercase(text), ToUppercase(word))

\* The (kind, text) pairs of a suggestion list.
KindsAndTexts(list) == [i \in 1..Len(list) |-> << list[i].suggestion_type, list[i].text >>]

\* The texts of a source that match the current word, tagged with a kind.
Matching(kind, source, word) ==
    LET hit(t) == MatchesWord(t, word)
        kept == SelectSeq(source, hit)
    IN  [i \in 1..Len(kept) |-> << kind, kept[i] >>]

\* All columns of all tables that match, table by table in the map's order.
MatchingAllColumns(word) ==
    Concat([i \in 1..Len(hash_order) |-> Matching("Column", engine.columns[hash_order[i]], word)])

FirstTen(list) == SubSeq(list, 1, IF Len(list) < 10 THEN Len(list) ELSE 10)

\* C4: Dot-qualified completion example: with the schema cache {users: [id, name]},
\* get_suggestions("SELECT users.n", 13) returns exactly one suggestion, of kind
\* Column with text "name".
DotExampleAt13 ==
    (/\ pc = "suggested"
     /\ engine = UpdateSchemaEngine(NewEngine, SchemaUsers)
     /\ query_input = SELECT_ \o users \o << ".", "n" >>
     /\ query_cursor = 13)
    => suggestions.ok /\ KindsAndTexts(suggestions.val) = << << "Column", name >> >>

\* C4, amended: the same call with the cursor at 14, the end of the text, returns
\* exactly the Column "name" and no keyword.
DotExampleAt14 ==
    (/\ pc = "suggested"
     /\ engine = UpdateSchemaEngine(NewEngine, SchemaUsers)
     /\ query_input = SELECT_ \o users \o << ".", "n" >>
     /\ query_cursor = 14)
    => suggestions.ok /\ KindsAndTexts(suggestions.val) = << << "Column", name >> >>

DotExampleWitness ==
    /\ pc = "suggested"
    /\ engine = UpdateSchemaEngine(NewEngine, SchemaUsers)
    /\ query_input = SELECT_ \o users \o << ".", "n" >>
    /\ query_cursor = 14
    /\ Len(suggestions.val) = 1

\* C5: Dot-qualified lookup with a known table: the result is only Column
\* suggestions, that table's columns that match the word, in column order,
\* truncated to 10, whatever the surrounding context.
DotKnownTable ==
    (/\ pc = "suggested"
     /\ query_cursor <= Len(query_input)
     /\ DotQualified
     /\ Qualifier \in Keys(engine.columns))
    => /\ suggestions.ok
       /\ KindsAndTexts(suggestions.val)
            = FirstTen(Matching("Column", engine.columns[Qualifier], CurrentWord))

\* A qualified word after FROM: ten of the eleven matching columns are returned.
DotKnownTableWitness ==
    /\ pc = "suggested"
    /\ query_cursor <= Len(query_input)
    /\ DotQualified
    /\ Qualifier \in Keys(engine.columns)
    /\ Contains(BeforeWord, FROM_)
    /\ Len(suggestions.val) = 10

\* The list the context rules give for the current word.
ContextRuleList ==
    LET ctx == ClassifyContext(ToUppercase(BeforeWord))
        word == CurrentWord
        keywords == Matching("Keyword", EngineKeywords, word)
        tables == Matching("Table", engine.tables, word)
    IN  FirstTen(IF ctx = "TableName" THEN tables \o keywords
                 ELSE IF ctx = "ColumnName"
                 THEN KindsAndTexts(MatchColumns(engine, hash_order, ToUppercase(word),
                                                 query_input)) \o keywords
                 ELSE keywords \o tables \o MatchingAllColumns(word))

\* C6: Dot-qualified lookup with an unknown name: when the identifier before the
\* dot is not a table of the schema cache, the result is the list the context
\* rules produce for the word.
DotUnknownFallsThrough ==
    (/\ pc = "suggested"
     /\ query_cursor <= Len(query_input)
     /\ DotQualified
     /\ Qualifier \notin Keys(engine.columns))
    => suggestions.ok /\ KindsAndTexts(suggestions.val) = ContextRuleList

\* C6, amended: when the identifier before the dot is non-empty and is not a table
\* of the schema cache, the dot rule still applies: the result is the empty list,
\* whatever the context rules would produce.
DotUnknownReturnsNothing ==
    (/\ pc = "suggested"
     /\ query_cursor <= Len(query_input)
     /\ DotQualified
     /\ Qualifier # << >>
     /\ Qualifier \notin Keys(engine.columns))
    => suggestions = Ok(<< >>)

\* An unknown qualifier in a filled cache, where the context rules have matches.
DotUnknownWitness ==
    /\ pc = "suggested"
    /\ query_cursor <= Len(query_input)
    /\ DotQualified
    /\ Qualifier # << >>
    /\ Qualifier \notin Keys(engine.columns)
    /\ engine.tables # << >>
    /\ ContextRuleList # << >>
    /\ suggestions = Ok(<< >>)

\* C7: Suggestion cap: get_suggestions returns at most 10 suggestions, in every
\* context and on the dot-qualified path.
SuggestionCap == pc = "suggested" => Len(suggestions.val) <= 10

\* The dot-qualified path with more than ten matching columns.
SuggestionCapWitness ==
    /\ pc = "suggested"
    /\ DotQualified
    /\ Qualifier \in Keys(engine.columns)
    /\ Len(Matching("Column", engine.columns[Qualifier], CurrentWord)) > 10
    /\ Len(suggestions.val) = 10

\* C8: Empty current word: with an empty text, the cursor at 0, or a char before
\* the cursor that is no word char, the result is the empty list, whatever the
\* schema cache.
EmptyWordNoSuggestions ==
    (/\ pc = "suggested"
     /\ \/ query_input = << >>
        \/ query_cursor = 0
        \/ query_cursor <= Len(query_input) /\ ~IsWordChar(query_input[query_cursor]))
    => suggestions = Ok(<< >>)

\* The cursor right after the dot of a known table, in a filled cache.
EmptyWordWitness ==
    /\ pc = "suggested"
    /\ engine.tables # << >>
    /\ query_cursor > 0 /\ query_cursor <= Len(query_input)
    /\ query_input[query_cursor] = "."
    /\ Qualifier \in Keys(engine.columns)
    /\ suggestions = Ok(<< >>)

\* The upper-cased text analyze_context looks at: the text before its position.
BeforeCursorUpper ==
    ToUppercase(ByteSlice(query_input, 0, Min(query_cursor, ByteLen(query_input))))

\* Some "FROM " has no "WHERE" starting after it.
FromWithoutLaterWhere(u) ==
    \E i \in 1..Len(u) :
        /\ OccursAt(u, FROM_, i)
        /\ \A j \in (i + 1)..Len(u) : ~OccursAt(u, WHERE, j)

\* "FROM " occurs, and "WHERE" occurs nowhere or the text ends with "FROM ".
FromWithoutAnyWhere(u) ==
    /\ \E i \in 1..Len(u) : OccursAt(u, FROM_, i)
    /\ \/ \A j \in 1..Len(u) : ~OccursAt(u, WHERE, j)
       \/ OccursAt(u, FROM_, Len(u) - 4)

\* The rules below TableName, as the claim orders them.
ColumnOrGeneral(u) ==
    IF StartsWith(u, SELECT_) /\ ~Contains(u, FROM) THEN "ColumnName"
    ELSE IF Contains(u, WHERE_) \/ Contains(u, ON_) THEN "ColumnName"
    ELSE "General"

\* C9: Context classification: TableName iff the text before the word contains
\* "FROM " with no WHERE occurring after that FROM; otherwise ColumnName if it
\* starts with "SELECT " and contains no FROM; otherwise ColumnName if it contains
\* "WHERE " or "ON "; otherwise General.
ContextClassification ==
    (pc = "classified" /\ context # "Panic")
    => context = IF FromWithoutLaterWhere(BeforeCursorUpper) THEN "TableName"
                 ELSE ColumnOrGeneral(BeforeCursorUpper)

\* C9, amended: TableName iff the text ends with "FROM ", or contains "FROM " and
\* contains no WHERE at all, before or after the FROM; the other rules as claimed.
ContextClassificationAmended ==
    (pc = "classified" /\ context # "Panic")
    => context = IF FromWithoutAnyWhere(BeforeCursorUpper) THEN "TableName"
                 ELSE ColumnOrGeneral(BeforeCursorUpper)

\* A WHERE before the FROM, and text after the FROM: not classified TableName.
ContextClassificationWitness ==
    /\ pc = "classified"
    /\ context \in {"ColumnName", "General"}
    /\ FromWithoutLaterWhere(BeforeCursorUpper)

\* The rank of a suggestion kind among the sources of a context.
SourceRank(ctx, kind) ==
    IF ctx = "TableName" THEN (IF kind = "Table" THEN 1 ELSE 2)
    ELSE IF ctx = "ColumnName" THEN (IF kind = "Column" THEN 1 ELSE 2)
    ELSE (IF kind = "Keyword" THEN 1 ELSE IF kind = "Table" THEN 2 ELSE 3)

\* C10: Source priority: off the dot path the result is the first 10 elements of
\* tables then keywords (TableName), columns then keywords (ColumnName), keywords
\* then tables then all columns (General), each source filtered by
\* case-insensitive prefix match on the current word; so every text starts with
\* the word and no source comes before a source of higher priority.
SourcePriority ==
    (pc = "suggested" /\ suggestions.ok /\ context # "None")
    => LET word == CurrentWord
           keywords == Matching("Keyword", EngineKeywords, word)
           tables == Matching("Table", engine.tables, word)
           columns == KindsAndTexts(MatchColumns(engine, hash_order, ToUppercase(word),
                                                 query_input))
           got == suggestions.val
       IN  /\ KindsAndTexts(got)
                = FirstTen(IF context = "TableName" THEN tables \o keywords
                           ELSE IF context = "ColumnName" THEN columns \o keywords
                           ELSE keywords \o tables \o MatchingAllColumns(word))
           /\ \A i \in 1..Len(got) : MatchesWord(got[i].text, word)
           /\ \A i, j \in 1..Len(got) :
                i < j => SourceRank(context, got[i].suggestion_type)
                           <= SourceRank(context, got[j].suggestion_type)

\* General context with all three sources in the result, cut at ten.
SourcePriorityWitness ==
    /\ pc = "suggested"
    /\ context = "General"
    /\ Len(suggestions.val) = 10
    /\ \E i, j, k \in 1..10 :
        /\ suggestions.val[i].suggestion_type = "Keyword"
        /\ suggestions.val[j].suggestion_type = "Table"
        /\ suggestions.val[k].suggestion_type = "Column"

\* The places where "FROM " occurs in the text, case-insensitively.
FromPositions == {i \in 1..Len(query_input) : OccursAt(ToUppercase(query_input), FROM_, i)}

\* The FROM nearest to the cursor: the last one that starts before the cursor,
\* the first one of the text when none does.
NearestFrom ==
    LET before == {i \in FromPositions : i <= CursorChars}
    IN  IF before # {} THEN CHOOSE i \in before : \A j \in before : j <= i
        ELSE CHOOSE i \in FromPositions : \A j \in FromPositions : i <= j

\* The table named after the FROM at place i: the word chars that follow it.
TableNamedAt(i) ==
    LET rest == SubSeq(query_input, i + 5, Len(query_input))
        stops == {k \in 1..Len(rest) : ~IsWordChar(rest[k])}
        e == IF stops = {} THEN Len(rest) + 1 ELSE CHOOSE k \in stops : \A m \in stops : k <= m
    IN  SubSeq(rest, 1, e - 1)

\* The columns of one table that match the word.
MatchingColumnsOf(table, word) == Matching("Column", engine.columns[table], word)

\* C11: Column source in ColumnName context: the column suggestions come from
\* the table named in the FROM clause nearest to the cursor when that table is
\* in the schema cache, and from all columns of all tables otherwise; with
\* several FROM clauses the table of the nearest one is used.
ColumnSourceNearestFrom ==
    (/\ pc = "suggested"
     /\ query_cursor <= Len(query_input)
     /\ suggestions.ok
     /\ context = "ColumnName")
    => LET word == CurrentWord
           known == FromPositions # {} /\ TableNamedAt(NearestFrom) \in Keys(engine.columns)
           columns == IF known THEN MatchingColumnsOf(TableNamedAt(NearestFrom), word)
                      ELSE MatchingAllColumns(word)
       IN  KindsAndTexts(suggestions.val)
             = FirstTen(columns \o Matching("Keyword", EngineKeywords, word))

\* The lines of a text: the pieces between line feeds.
Lines(s) ==
    LET breaks == << 0 >> \o SelectSeq([i \in 1..Len(s) |-> IF s[i] = "\n" THEN i ELSE 0],
                                       LAMBDA i : i # 0) \o << Len(s) + 1 >>
    IN  [k \in 1..(Len(breaks) - 1) |-> SubSeq(s, breaks[k] + 1, breaks[k + 1] - 1)]

\* C12: Formatter clause placement: the lines of
\* format("select id,name from users where id=1") are SELECT; "id," indented by
\* 4 spaces; "name" indented by 4 spaces; FROM users; WHERE; then "id = 1"
\* indented one level deeper than WHERE.
ClausePlacement ==
    (pc = "formatted" /\ sql = ClauseExample)
    => Lines(formatted)
         = << <<"S","E","L","E","C","T">>,
              <<" "," "," "," ","i","d",",">>,
              <<" "," "," "," ","n","a","m","e">>,
              <<"F","R","O","M"," ","u","s","e","r","s">>,
              <<"W","H","E","R","E">>,
              <<" "," "," "," ","i","d"," ","="," ","1">> >>

\* C12, amended: the lines are SELECT; "id," indented by 4 spaces; "name"
\* indented by 4 spaces; FROM users; and WHERE id = 1 on one line, the condition
\* one space after WHERE.
ClausePlacementOneLineWhere ==
    (pc = "formatted" /\ sql = ClauseExample)
    => Lines(formatted)
         = << <<"S","E","L","E","C","T">>,
              <<" "," "," "," ","i","d",",">>,
              <<" "," "," "," ","n","a","m","e">>,
              <<"F","R","O","M"," ","u","s","e","r","s">>,
              <<"W","H","E","R","E"," ","i","d"," ","="," ","1">> >>

\* The example has been formatted to several lines.
ClausePlacementWitness ==
    /\ pc = "formatted"
    /\ sql = ClauseExample
    /\ Len(Lines(formatted)) > 1

\* C13: Cursor invariant: from the empty editor with cursor 0, after any sequence
\* of editor keys (character, Enter, Backspace, Left, Right, accepting a
\* suggestion, formatting) the cursor is within 0..len(query_input).
CursorInRange ==
    pc \in {"running", "panicked", "exited"}
    => query_cursor >= 0 /\ query_cursor <= ByteLen(query_input)

\* Enter was pressed with the cursor inside the text: the line feed is at the
\* end and the cursor is not.
CursorInRangeWitness ==
    /\ pc = "running"
    /\ query_input # << >>
    /\ query_input[Len(query_input)] = "\n"
    /\ query_cursor > 0
    /\ query_cursor < Len(query_input)

\* The highlighted index is an index of the list.
HighlightClamped ==
    suggestions.val # << >>
    => suggestion_selected >= 0 /\ suggestion_selected < Len(suggestions.val)

\* Down moves to the following entry and from the last to the first; Up moves to
\* the entry before and from the first to the last.
HighlightWraps ==
    /\ (KeyDown /\ show_autocomplete)
       => suggestion_selected' = IF suggestion_selected = Len(suggestions.val) - 1 THEN 0
                                 ELSE suggestion_selected + 1
    /\ (KeyUp /\ show_autocomplete)
       => suggestion_selected' = IF suggestion_selected = 0 THEN Len(suggestions.val) - 1
                                 ELSE suggestion_selected - 1

\* C14: Highlighted-index clamp: whenever the suggestion list is non-empty,
\* 0 <= suggestion_selected < len(suggestions), after any sequence of
\* update_autocomplete, select next/prev, accept and hide; next and prev wrap
\* around at the ends.
HighlightedIndexClamp == [](pc \in {"running", "panicked", "exited"} => HighlightClamped)
                         /\ [][HighlightWraps]_vars

\* The last entry of a list of several is highlighted.
HighlightedIndexWitness ==
    /\ pc = "running"
    /\ show_autocomplete
    /\ Len(suggestions.val) > 1
    /\ suggestion_selected = Len(suggestions.val) - 1

OutOfRangeCursorClamped ==
    (pc = "suggested" /\ query_cursor > ByteLen(query_input)) =>
        /\ suggestions.ok
        /\ suggestions = GetSuggestions(engine, hash_order, query_input, ByteLen(query_input))


\* C17: two engines that received the same schema snapshot return the identical
\* ordered suggestion list for the same text and cursor, in every context, the
\* contexts that fall back to the columns of all tables included.
SuggestionsDeterministic ==
    pc = "suggested" =>
        \A order \in IterationOrders(Keys(engine.columns)) :
            GetSuggestions(engine, order, query_input, query_cursor)
                = GetSuggestions(engine, hash_order, query_input, query_cursor)


\* C18: after update_schema(S) the table list is exactly the table names of S in
\* order and the column map holds exactly the tables of S, each with a column
\* list S gives it; nothing of an earlier snapshot remains, whatever the sequence
\* of update_schema calls, and the keyword vocabulary is the one of new().
SchemaReplacedWholesale ==
    schema_loads > 0 =>
        /\ Len(engine.tables) = Len(last_schema)
        /\ \A i \in 1..Len(last_schema) : engine.tables[i] = last_schema[i][1]
        /\ Keys(engine.columns) = {last_schema[i][1] : i \in 1..Len(last_schema)}
        /\ \A t \in Keys(engine.columns) :
               \E i \in 1..Len(last_schema) : last_schema[i] = << t, engine.columns[t] >>
        /\ engine.keywords = EngineKeywords

\* A second update_schema has left one table on an engine that held others.
SchemaReplacedWitness ==
    /\ schema_loads >= 2
    /\ engine.tables = << notes >>
    /\ Keys(engine.columns) = {notes}


\* C19: over any sequence of key events update_schema is never invoked while no
\* database client is connected, it is invoked at most once (it is not invoked
\* again once autocomplete_schema_loaded is true), and the flag never returns to
\* false.
LazyLoadOnce ==
    /\ [](/\ schema_loads <= 1
          /\ (schema_loads > 0 => client)
          /\ (autocomplete_schema_loaded <=> schema_loads = 1))
    /\ [][/\ (schema_loads' # schema_loads => client /\ ~autocomplete_schema_loaded)
          /\ (autocomplete_schema_loaded => autocomplete_schema_loaded')]_vars

\* The schema was loaded by the first key and a second key has been handled.
LazyLoadOnceWitness ==
    /\ pc = "running"
    /\ autocomplete_schema_loaded
    /\ schema_loads = 1
    /\ Len(query_input) = 2

\* C20: when a metadata fetch fails part-way through the lazy load,
\* update_autocomplete returns the error with the schema cache exactly as it was
\* before the call and with autocomplete_schema_loaded still false.
AtomicSchemaPublish ==
    [][(pc = "running" /\ pc' = "exited") =>
           /\ engine' = engine
           /\ ~autocomplete_schema_loaded'
           /\ schema_loads' = schema_loads
           /\ last_schema' = last_schema]_vars

\* A key was handled, the load that followed failed and the error was returned.
AtomicSchemaPublishWitness ==
    /\ pc = "exited"
    /\ query_input # << >>
    /\ client
    /\ ~autocomplete_schema_loaded


\* A char that no arm of the lexer before the last one matches.
UnmatchedChar(c) ==
    /\ c \notin {" ", "\t", "\n", "\r", "'", "(", ")", ",", ";", ".", "_"}
    /\ c \notin OperatorChars
    /\ ~IsAsciiDigit(c)
    /\ ~IsAlphabetic(c)

TokenTypes ==
    {"Keyword", "Identifier", "String", "Number", "Comment", "Operator", "Punctuation",
     "Whitespace"}

\* C21: tokenize ends on every input and never fails: every token is of one of
\* the token types and has a non-empty text, the step taken at any position
\* consumes at least one char and stays within the input, and a char that no
\* other rule matches becomes a Punctuation token of that single char.
LexerTotal ==
    pc = "tokenized" =>
        /\ \A k \in 1..Len(tokens) :
               /\ tokens[k].token_type \in TokenTypes
               /\ tokens[k].text # << >>
               /\ UnmatchedChar(tokens[k].text[1]) =>
                      tokens[k].token_type = "Punctuation" /\ Len(tokens[k].text) = 1
        /\ \A i \in 1..Len(sql) :
               /\ LexOne(sql, i).next > i
               /\ LexOne(sql, i).next <= Len(sql) + 1
        /\ sql = << >> <=> tokens = << >>

\* An unmatched char between two words has become a token of its own.
LexerTotalWitness ==
    /\ pc = "tokenized"
    /\ Len(tokens) = 3
    /\ tokens[2] = Token("Punctuation", << "#" >>)
    /\ tokens[1].token_type = "Identifier"
    /\ tokens[3].token_type = "Keyword"


\* t is s without a run of whitespace at its start and one at its end, and
\* neither starts nor ends with whitespace.
IsTrimmed(s, t) ==
    /\ \E a, b \in 0..Len(s) :
           /\ a + b <= Len(s)
           /\ \A i \in 1..a : IsWhitespace(s[i])
           /\ \A i \in (Len(s) - b + 1)..Len(s) : IsWhitespace(s[i])
           /\ t = SubSeq(s, a + 1, Len(s) - b)
    /\ t # << >> => ~IsWhitespace(t[1]) /\ ~IsWhitespace(t[Len(t)])

\* C22: for every text without ';' and every cursor, extract_current_query
\* returns the whole text with leading and trailing whitespace removed; for the
\* empty text it returns the empty string.
ExtractionWithoutSemicolons ==
    (pc = "extracted" /\ \A i \in 1..Len(query_input) : query_input[i] # ";") =>
        /\ extracted.ok
        /\ IsTrimmed(query_input, extracted.val)
        /\ query_input = << >> => extracted.val = << >>

\* A text without ';' that has whitespace on both sides of a statement.
ExtractionWithoutSemicolonsWitness ==
    /\ pc = "extracted"
    /\ query_input = << " ", "a", WideLower, " " >>
    /\ query_cursor = 2
    /\ extracted = Ok(<< "a", WideLower >>)


\* The tokens that are not Whitespace, in order.
NonWhitespace(toks) == SelectSeq(toks, LAMBDA t : t.token_type # "Whitespace")

\* The tokens with the text of every Keyword token upper-cased.
KeywordsUpper(toks) ==
    [k \in 1..Len(toks) |->
        IF toks[k].token_type = "Keyword"
        THEN Token("Keyword", ToUppercase(toks[k].text))
        ELSE toks[k]]

\* C23: for every input s the non-Whitespace tokens of tokenize(format(s)) are
\* the non-Whitespace tokens of tokenize(s) with keyword text upper-cased:
\* formatting never merges two adjacent tokens into one and never splits or
\* drops a token.
FormatPreservesTokens ==
    pc = "formatted" =>
        NonWhitespace(Tokenize(formatted)) = KeywordsUpper(NonWhitespace(Tokenize(sql)))


JoinModifiers ==
    { <<"I","N","N","E","R">>, <<"L","E","F","T">>, <<"R","I","G","H","T">>,
      <<"F","U","L","L">>, <<"C","R","O","S","S">> }

IsKeywordIn(token, words) ==
    token.token_type = "Keyword" /\ ToUppercase(token.text) \in words

\* Some line of the text is n spaces followed by a text that starts with start.
LineStartsWith(text, n, start) ==
    \E k \in 1..Len(Lines(text)) :
        /\ \A i \in 1..n : i <= Len(Lines(text)[k]) /\ Lines(text)[k][i] = " "
        /\ OccursAt(Lines(text)[k], start, n + 1)

\* C24: when a join modifier (INNER, LEFT, RIGHT, FULL, CROSS) is followed by the
\* keyword JOIN in the input, the formatter starts a new line before the
\* modifier, so the modifier and JOIN are together on that line; a bare JOIN
\* also starts a new line.
JoinPlacement ==
    pc = "formatted" =>
        LET toks == NonWhitespace(Tokenize(sql))
        IN  \A k \in 1..Len(toks) :
                IF toks[k].token_type = "Keyword" /\ ToUppercase(toks[k].text) = <<"J","O","I","N">>
                THEN IF k > 1 /\ IsKeywordIn(toks[k - 1], JoinModifiers)
                     THEN \E n \in 0..Len(formatted) :
                              LineStartsWith(formatted, n,
                                  ToUppercase(toks[k - 1].text) \o <<" ","J","O","I","N">>)
                     ELSE \E n \in 0..Len(formatted) :
                              LineStartsWith(formatted, n, <<"J","O","I","N">>)
                ELSE TRUE


\* The indices of the tokens (or chars) of a sequence that are commas.
CommaTokens(toks) ==
    SelectSeq([k \in 1..Len(toks) |-> IF toks[k].text = <<",">> THEN k ELSE 0],
              LAMBDA k : k # 0)

CommaChars(s) ==
    SelectSeq([i \in 1..Len(s) |-> IF s[i] = "," THEN i ELSE 0], LAMBDA i : i # 0)

\* Token k stands in a SELECT column list: the last major clause keyword before
\* it is SELECT.
InColumnList(toks, k) ==
    \E j \in 1..(k - 1) :
        /\ IsKeywordIn(toks[j], {<<"S","E","L","E","C","T">>})
        /\ \A m \in (j + 1)..(k - 1) : ~IsKeywordIn(toks[m], MajorClauses)

\* C25: a comma is followed by a newline and one extra indent level only while
\* the formatter is inside a SELECT column list; a comma after the column list
\* has ended (after a following clause keyword such as FROM or WHERE) is emitted
\* inline with no newline.  Stated of the commas that a value follows, where a
\* line break after the comma can only be the comma's.
CommaHandling ==
    pc = "formatted" =>
        LET toks   == NonWhitespace(Tokenize(sql))
            commas == CommaTokens(toks)
            chars  == CommaChars(formatted)
        IN  /\ Len(chars) = Len(commas)
            /\ \A n \in 1..Len(commas) :
                   (/\ commas[n] < Len(toks)
                    /\ toks[commas[n] + 1].token_type \in {"Identifier", "Number"}) =>
                       (formatted[chars[n] + 1] = "\n" <=> InColumnList(toks, commas[n]))


\* s with one more space after its first i chars.
WithSpaceAt(s, i) == SubSeq(s, 1, i) \o << " " >> \o SubSeq(s, i + 1, Len(s))

\* C26: the formatter's output depends only on the sequence of non-Whitespace
\* tokens: two inputs whose token sequences are equal after deleting the
\* Whitespace tokens have the same formatted output.  Stated of an input and the
\* inputs that have one more space.
WhitespaceIndependent ==
    pc = "formatted" =>
        \A i \in 0..Len(sql) :
            NonWhitespace(Tokenize(WithSpaceAt(sql, i))) = NonWhitespace(Tokenize(sql))
                => Format(WithSpaceAt(sql, i)) = formatted


Spaces(n) == [i \in 1..n |-> " "]

\* The chars of s from the start of the line of char p up to char p - 1.
LineBefore(s, p) ==
    LET feeds == {i \in 1..(p - 1) : s[i] = "\n"}
    IN  SubSeq(s, IF feeds = {} THEN 1 ELSE (CHOOSE i \in feeds : \A j \in feeds : j <= i) + 1,
               p - 1)

\* C27: whenever the formatter processes a major clause keyword, in any letter
\* case, it appends a newline unless the output so far is empty or ends in a
\* newline, then 4 * indent_level spaces, then the keyword upper-cased; so every
\* major clause keyword begins its own output line, every keyword token is
\* emitted in upper case, and the final output has no leading or trailing
\* whitespace.
MajorClauseEmission ==
    pc = "formatted" =>
        LET toks == Tokenize(sql)
            last == FormatPrefix(toks, Len(toks)).result
        IN  /\ \A k \in 1..Len(toks) :
                   LET before == FormatPrefix(toks, k - 1)
                       after  == FormatPrefix(toks, k)
                       upper  == ToUppercase(toks[k].text)
                       break  == IF before.result = << >> \/ EndsWithChar(before.result, "\n")
                                 THEN << >> ELSE << "\n" >>
                   IN  /\ IsKeywordIn(toks[k], MajorClauses) =>
                           /\ after.result
                                = before.result \o break \o Spaces(4 * before.indent_level) \o upper
                           /\ LineBefore(last, Len(after.result) - Len(upper) + 1)
                                = Spaces(4 * before.indent_level)
                       /\ toks[k].token_type = "Keyword" =>
                           /\ EndsWith(after.result, upper)
                           /\ SubSeq(last, 1, Len(after.result)) = after.result
            /\ formatted = Trim(last)
            /\ formatted # << >> =>
                   ~IsWhitespace(formatted[1]) /\ ~IsWhitespace(formatted[Len(formatted)])

\* A mixed-case major clause keyword was formatted inside a parenthesis, after
\* another clause.
MajorClauseEmissionWitness ==
    /\ pc = "formatted"
    /\ sql = <<"(","s","e","l","e","c","t"," ","F","r","o","m">>
    /\ formatted = <<"(","\n"," "," "," "," ","S","E","L","E","C","T","\n",
                     " "," "," "," ","F","R","O","M">>


IsPunctuation(token, char) == token.token_type = "Punctuation" /\ token.text = << char >>

RECURSIVE ParenDepth(_, _)
\* The paren depth after the first k tokens: +1 for each '(' and -1 for each
\* ')', floored at 0.
ParenDepth(toks, k) ==
    IF k = 0 THEN 0
    ELSE IF IsPunctuation(toks[k], "(") THEN ParenDepth(toks, k - 1) + 1
    ELSE IF IsPunctuation(toks[k], ")") /\ ParenDepth(toks, k - 1) > 0
         THEN ParenDepth(toks, k - 1) - 1
    ELSE ParenDepth(toks, k - 1)

\* C28: after any prefix of the token stream indent_level is the paren depth of
\* the prefix (+1 for '(', -1 for ')', floored at 0): it never underflows on an
\* unmatched ')'; '(' and ')' are emitted inline, without a newline.
IndentLevelTracking ==
    pc = "formatted" =>
        LET toks == Tokenize(sql)
        IN  \A k \in 0..Len(toks) :
                /\ FormatPrefix(toks, k).indent_level = ParenDepth(toks, k)
                /\ FormatPrefix(toks, k).indent_level >= 0
                /\ (k > 0 /\ IsPunctuation(toks[k], "(")) =>
                       FormatPrefix(toks, k).result = FormatPrefix(toks, k - 1).result \o << "(" >>
                /\ (k > 0 /\ IsPunctuation(toks[k], ")")) =>
                       FormatPrefix(toks, k).result = FormatPrefix(toks, k - 1).result \o << ")" >>

\* An unmatched ')' came first, then a balanced pair: the level is back at 0 and
\* the SELECT that follows is not indented.
IndentLevelTrackingWitness ==
    /\ pc = "formatted"
    /\ sql = <<")","(",")","s","e","l","e","c","t"," ">>
    /\ formatted = <<")","(",")","\n","S","E","L","E","C","T">>


RECURSIVE TokenStart(_, _)
\* The index in the input of the first char of token k.
TokenStart(toks, k) == IF k = 1 THEN 1 ELSE TokenStart(toks, k - 1) + Len(toks[k - 1].text)

\* The number of backslashes that stand directly before char j, after char p.
BackslashesBefore(s, p, j) ==
    LET others == {i \in (p + 1)..(j - 1) : s[i] # "\\"}
    IN  IF others = {} THEN j - 1 - p
        ELSE j - 1 - (CHOOSE i \in others : \A m \in others : m <= i)

\* Char j of a string opened at p is escaped: a backslash that is not itself
\* escaped stands before it.
EscapedIn(s, p, j) == BackslashesBefore(s, p, j) % 2 = 1

\* C29: a "'" at token start opens a String token that extends through the
\* first later "'" that is not escaped by an active backslash (a backslash
\* escapes exactly the one char after it), or to the end of the input when there
\* is none; "--" and ";" inside the string start no token.
StringTokens ==
    pc = "tokenized" =>
        \A k \in 1..Len(tokens) :
            LET p      == TokenStart(tokens, k)
                closes == {j \in (p + 1)..Len(sql) : sql[j] = "'" /\ ~EscapedIn(sql, p, j)}
                end    == IF closes = {} THEN Len(sql)
                          ELSE CHOOSE j \in closes : \A m \in closes : j <= m
            IN  /\ tokens[k].token_type = "String" <=> sql[p] = "'"
                /\ tokens[k].token_type = "String" => tokens[k].text = SubSeq(sql, p, end)

\* A string with an escaped quote in it, closed by the quote after.
StringTokensWitness ==
    /\ pc = "tokenized"
    /\ sql = << "'", "\\", "'", "'" >>
    /\ tokens = << Token("String", sql) >>


\* C30: "--" at token start opens a Comment token that extends up to but not
\* including the next line feed, or to the end of the input; every Comment token
\* starts with "--" and holds no line feed, and a '-' directly followed by
\* another '-' is never emitted as an Operator token.
CommentTokens ==
    pc = "tokenized" =>
        \A k \in 1..Len(tokens) :
            LET p     == TokenStart(tokens, k)
                dash2 == sql[p] = "-" /\ p + 1 <= Len(sql) /\ sql[p + 1] = "-"
                feeds == {j \in (p + 2)..Len(sql) : sql[j] = "\n"}
                end   == IF feeds = {} THEN Len(sql)
                         ELSE (CHOOSE j \in feeds : \A m \in feeds : j <= m) - 1
            IN  /\ tokens[k].token_type = "Comment" <=> dash2
                /\ tokens[k].token_type = "Comment" =>
                       /\ tokens[k].text = SubSeq(sql, p, end)
                       /\ StartsWith(tokens[k].text, << "-", "-" >>)
                       /\ \A i \in 1..Len(tokens[k].text) : tokens[k].text[i] # "\n"
                /\ (tokens[k].token_type = "Operator" /\ sql[p] = "-") => ~dash2

\* A comment that a line feed ends, and a single '-' after it.
CommentTokensWitness ==
    /\ pc = "tokenized"
    /\ sql = << "-", "-", "\n", "-" >>
    /\ tokens = << Token("Comment", << "-", "-" >>), Token("Whitespace", << "\n" >>),
                   Token("Operator", << "-" >>) >>


\* The text the claim gives the token that starts at char p with an operator
\* char: two chars for > < ! followed by = or >, one char otherwise.
OperatorTextAt(s, p) ==
    IF s[p] \in {">", "<", "!"} /\ p + 1 <= Len(s) /\ s[p + 1] \in {"=", ">"}
    THEN SubSeq(s, p, p + 1)
    ELSE << s[p] >>

\* C31: each of = > < ! + - * / % | & at token start yields an Operator token of
\* length 1, except that > < ! followed by = or > form one Operator token of two
\* chars; no Operator token is longer than 2 chars and no other pair is merged.
OperatorTokens ==
    pc = "tokenized" =>
        \A k \in 1..Len(tokens) :
            /\ sql[TokenStart(tokens, k)] \in {"=", ">", "<", "!", "+", "-", "*", "/", "%", "|", "&"}
                   <=> tokens[k].token_type = "Operator"
            /\ tokens[k].token_type = "Operator" =>
                   /\ tokens[k].text = OperatorTextAt(sql, TokenStart(tokens, k))
                   /\ Len(tokens[k].text) <= 2

\* C31, amended: the same, except that a '-' directly followed by another '-' at
\* token start yields no Operator token (it opens a Comment token).
OperatorTokensButComments ==
    pc = "tokenized" =>
        \A k \in 1..Len(tokens) :
            LET p     == TokenStart(tokens, k)
                dash2 == sql[p] = "-" /\ p + 1 <= Len(sql) /\ sql[p + 1] = "-"
            IN  /\ (/\ sql[p] \in {"=", ">", "<", "!", "+", "-", "*", "/", "%", "|", "&"}
                    /\ ~dash2)
                       <=> tokens[k].token_type = "Operator"
                /\ dash2 => tokens[k].token_type = "Comment"
                /\ tokens[k].token_type = "Operator" =>
                       /\ tokens[k].text = OperatorTextAt(sql, p)
                       /\ Len(tokens[k].text) <= 2

\* "!>" has become one Operator token of two chars.
OperatorTokensWitness ==
    /\ pc = "tokenized"
    /\ sql = << "!", ">" >>
    /\ tokens = << Token("Operator", << "!", ">" >>) >>


\* C32: when the popup is visible and Tab accepts the highlighted suggestion,
\* the popup is hidden once the key is handled (show_autocomplete = false, no
\* suggestions), for suggestions of every kind.
PopupClosesOnAccept ==
    [][(/\ KeyTabAccept
        /\ suggestion_selected < Len(suggestions.val)
        /\ pc' = "running")
       => (~show_autocomplete' /\ suggestions'.val = << >>)]_vars


\* The text with ch inserted at byte offset cursor: old[..cursor] + ch + old[cursor..].
InsertedAtCursor(old, cursor, ch) ==
    ByteSlice(old, 0, cursor) \o << ch >> \o ByteSlice(old, cursor, ByteLen(old))

\* C33: in every editor state with 0 <= cursor <= len(text), a character key c
\* or Enter produces the text old[..cursor] + ch + old[cursor..] (ch = c, or a
\* newline for Enter) and advances the cursor by exactly one; Backspace with
\* cursor > 0 removes exactly the character before the cursor; Left and Right
\* leave the text unchanged.
KeystrokeAtCursor ==
    [][\A key \in TextKeys :
         (/\ KeyText(key)
          /\ query_cursor <= ByteLen(query_input)
          /\ IsCharBoundary(query_input, query_cursor))
         => /\ key.code = "Char"
               => /\ query_input' = InsertedAtCursor(query_input, query_cursor, key.ch)
                  /\ query_cursor' = query_cursor + 1
            /\ key.code = "Enter"
               => /\ query_input' = InsertedAtCursor(query_input, query_cursor, "\n")
                  /\ query_cursor' = query_cursor + 1
            /\ (key.code = "Backspace" /\ query_cursor > 0)
               => query_input' = ByteSlice(query_input, 0, query_cursor - 1)
                                 \o ByteSlice(query_input, query_cursor, ByteLen(query_input))
            /\ key.code \in {"Left", "Right"} => query_input' = query_input]_vars


\* C34: when the editor text contains ';', format_current_query rewrites only
\* the statement under the cursor: the text up to and including the preceding
\* ';' and the text from the following ';' to the end are unchanged, and so is
\* the number of ';' in the text.
FormatInPlaceFrame ==
    [][(KeyFormat /\ Semicolons(query_input) # << >>)
       => /\ pc' = "running"
          /\ StartsWith(query_input',
                        ByteSlice(query_input, 0,
                                  QueryStart(Semicolons(query_input), query_cursor)))
          /\ EndsWith(query_input',
                      ByteSlice(query_input,
                                QueryEnd(Semicolons(query_input), query_cursor,
                                         ByteLen(query_input)),
                                ByteLen(query_input)))
          /\ Len(Semicolons(query_input')) = Len(Semicolons(query_input))]_vars

\* C34 witness: the text ";from b;" with its middle statement rewritten by
\* format_current_query, the two ';' standing around it.
FormatInPlaceFrameWitness ==
    /\ pc = "running"
    /\ query_input = <<";","\n","F","R","O","M"," ","b",";">>
    /\ query_cursor = 8


\* C35: if extract_current_query returns q before format_current_query, then
\* right after format_current_query the cursor still lies in the same statement
\* (the one that starts after the same ';', or at the start of the text) and
\* extract_current_query returns format(q).
FormatThenExtract ==
    [][KeyFormat
       => /\ pc' = "running"
          /\ QueryStart(Semicolons(query_input'), query_cursor')
               = QueryStart(Semicolons(query_input), query_cursor)
          /\ ExtractCurrentQuery(query_input', query_cursor')
               = Ok(Format(ExtractCurrentQuery(query_input, query_cursor).val))]_vars

\* C35 witness: "select 1;from b" was formatted with the cursor in its second
\* statement, and the statement that runs next is the formatted "FROM b".
FormatThenExtractWitness ==
    /\ pc = "running"
    /\ query_input = <<"s","e","l","e","c","t"," ","1",";","\n","F","R","O","M"," ","b">>
    /\ query_cursor = 16
    /\ extracted = Ok(<<"F","R","O","M"," ","b">>)


\* C36: after any sequence of browser key events, whenever browser_items is
\* non-empty the selection satisfies browser_selected < len(browser_items).
BrowserSelectionInRange ==
    browser_items # << >> => browser_selected < Len(browser_items)


\* The three Folder items of the schema at index i (1-based) stand directly
\* after its Schema item.
FoldersShownAt(items, i) ==
    /\ i + 1 <= Len(items)
    /\ items[i + 1] = FolderItem(items[i].name, "Tables")
    /\ \E j, k \in (i + 2)..Len(items) :
         /\ j < k
         /\ items[j] = FolderItem(items[i].name, "Views")
         /\ items[k] = FolderItem(items[i].name, "Functions")
         /\ \A m \in (i + 2)..(k - 1) : m # j => IsChild(items[m])

\* C37: after any sequence of browser key events, "schema:X" is in
\* expanded_items iff the three Folder items of schema X are present directly
\* after X's Schema item, and a folder key is in expanded_items only if its
\* schema is expanded.
ExpansionBookkeeping ==
    /\ \A i \in 1..Len(browser_items) :
         browser_items[i].kind = "Schema"
         => (SchemaKey(browser_items[i].name) \in expanded_items
             <=> FoldersShownAt(browser_items, i))
    /\ \A key \in expanded_items :
         key[1] = "folder" => SchemaKey(key[2]) \in expanded_items


\* The mode changes the key handlers make.
ModeTransitions ==
    { << "ConnectionSelector", "ConnectionEdit" >>,
      << "ConnectionEdit", "ConnectionSelector" >>,
      << "ConnectionEdit", "Browser" >>,
      << "Browser", "Query" >>,
      << "Query", "Browser" >> }

\* C38: in every reachable state the mode is Browser or Query only if a
\* database client is connected; a connect that fails on the port or in the
\* driver leaves the mode at ConnectionEdit; and the mode only changes from
\* ConnectionSelector to ConnectionEdit, from ConnectionEdit to
\* ConnectionSelector or (with the client connected) to Browser, and between
\* Browser and Query.
ConnectedBeforeBrowsing ==
    /\ [](mode \in {"Browser", "Query"} => client)
    /\ [][/\ mode' # mode => << mode, mode' >> \in ModeTransitions
          /\ (mode = "ConnectionEdit" /\ mode' = "Browser") => client'
          /\ \A outcome \in {"port", "driver"} :
               Connect(outcome) => (mode' = "ConnectionEdit" /\ ~client')]_vars

\* C38 witness: the query editor, reached through a connect that succeeded and
\* listed the schemas, and Tab in the browser.
ConnectedBeforeBrowsingWitness ==
    /\ mode = "Query"
    /\ client
    /\ browser_items # << >>

====
